---- MODULE Spec2Model ----
(***************************************************************************)
(* Government portal backend: the store-backed server (server.js with the  *)
(* Mongoose User model), the static-user server variant, the auth gate     *)
(* (authenticateToken), login, register, profile fetch and the bootstrap   *)
(* seeder (seedDefaultUsers), the health route and the damages router;     *)
(* and of the frontend the Login page (handleSubmit) and the Dashboard in  *)
(* its two versions: the load effect with its two fetches, and the report  *)
(* table and monthly trend of the AnalyticsView.                           *)
(*                                                                         *)
(* Conventions.  A JavaScript value that may be undefined is a sequence   *)
(* of length 0 (undefined / null) or 1 (the value).  A local variable of a *)
(* handler that has not been assigned yet is Unset.  A string that the     *)
(* code takes apart (the Authorization header) is a sequence of            *)
(* characters; a word the code never looks into is one character.          *)
(***************************************************************************)
EXTENDS Integers, Sequences, FiniteSets, TLC

(* ------------------------------ bounds -------------------------------- *)
\* number of clock advances explored
MaxTicks == 2
\* number of times the store-backed process is started
MaxBoots == 2
\* number of requests the clients send
MaxRequests == 2

(* --------------------------- program constants ------------------------ *)
\* jwt.sign(..., { expiresIn: '24h' }), in hours
ExpiresIn == 24
\* bcrypt.hash(password, 10): the work factor
SaltRounds == 10
\* hours that pass in one clock advance: half a token lifetime, so that the
\* expiry instant itself is one of the instants explored
TickHours == ExpiresIn \div 2

JWT_SECRET == "your-government-secret-key-change-in-production"

(* ------------------------------ values -------------------------------- *)
None == << >>
Some(v) == << v >>
Unset == << >>
Ran(v) == << v >>

FalsyOnlyUndefined(o) == o = None

\* !x for a value that is undefined or a string
FalsyStr(o) == o = None \/ o = Some("")

\* a character of a header: a word, the space, or a whole token
Word(w) == [ch |-> w]
SP == [ch |-> " "]

\* a number id (static users) and a store-generated ObjectId
NumId(n) == [num |-> n]
ObjectId(n) == [oid |-> n]

(* --------------------------- bcrypt ----------------------------------- *)
\* the salts bcrypt's generator draws (one stands for all: the code never reads a salt)
Salts == {"salt1"}

\* bcrypt.hash(plaintext, rounds) with the salt it drew: the hash embeds the
\* work factor and the salt; `of` stands for the digest of (salt, plaintext).
BcryptHash(plaintext, rounds, salt) ==
    [alg |-> "2b", rounds |-> rounds, salt |-> salt, of |-> plaintext]

BcryptCompareAlwaysTrue(plaintext, hash) == TRUE

\* bcrypt.compare(plaintext, hash): recompute with the embedded salt
BcryptCompare(plaintext, hash) ==
    BcryptHash(plaintext, hash.rounds, hash.salt) = hash

(* ----------------------------- jwt ------------------------------------ *)
\* the HMAC of the encoded header and payload under a secret
Hmac(secret, payload) == [key |-> secret, msg |-> payload]

JwtSignDropsRole(claims, secret, expiresIn, now) ==
    LET payload == [id |-> claims.id, username |-> claims.username,
                    role |-> "user", iat |-> now, exp |-> now + expiresIn]
    IN  [payload |-> payload, sig |-> Hmac(secret, payload)]

\* jwt.sign(claims, secret, { expiresIn }): adds iat and exp, signs
JwtSign(claims, secret, expiresIn, now) ==
    LET payload == [id |-> claims.id, username |-> claims.username,
                    role |-> claims.role, iat |-> now, exp |-> now + expiresIn]
    IN  [payload |-> payload, sig |-> Hmac(secret, payload)]

\* a string is a JWT when it is one token character with the three parts
IsJwt(str) == Len(str) = 1 /\ DOMAIN str[1] = {"payload", "sig"}

JwtVerifyNoSignatureCheck(str, secret, now) ==
    IF ~IsJwt(str) THEN [err |-> "JsonWebTokenError", decoded |-> None]
    ELSE IF now >= str[1].payload.exp
         THEN [err |-> "TokenExpiredError", decoded |-> None]
    ELSE [err |-> "", decoded |-> Some(str[1].payload)]

JwtVerifyNoExpiryCheck(str, secret, now) ==
    IF ~IsJwt(str) THEN [err |-> "JsonWebTokenError", decoded |-> None]
    ELSE IF str[1].sig # Hmac(secret, str[1].payload)
         THEN [err |-> "JsonWebTokenError", decoded |-> None]
    ELSE [err |-> "", decoded |-> Some(str[1].payload)]

\* jwt.verify(token, secret, callback): the callback's (err, decoded)
JwtVerify(str, secret, now) ==
    IF ~IsJwt(str) THEN [err |-> "JsonWebTokenError", decoded |-> None]
    ELSE IF str[1].sig # Hmac(secret, str[1].payload)
         THEN [err |-> "JsonWebTokenError", decoded |-> None]
    ELSE IF now >= str[1].payload.exp
         THEN [err |-> "TokenExpiredError", decoded |-> None]
    ELSE [err |-> "", decoded |-> Some(str[1].payload)]

(* ------------------------- String.split(' ') -------------------------- *)
RECURSIVE SplitFrom(_, _, _, _)
SplitFrom(str, i, cur, acc) ==
    IF i > Len(str) THEN Append(acc, cur)
    ELSE IF str[i] = SP THEN SplitFrom(str, i + 1, << >>, Append(acc, cur))
    ELSE SplitFrom(str, i + 1, Append(cur, str[i]), acc)

\* str.split(' '): the segments between spaces (empty segments kept)
Split(str) == SplitFrom(str, 1, << >>, << >>)

\* arr[i] with JavaScript's zero-based index: undefined past the end
At(arr, i) == IF i + 1 <= Len(arr) THEN Some(arr[i + 1]) ELSE None

(* ------------------------------ state --------------------------------- *)
VARIABLES
    clock,      \* the wall clock, in hours (Date.now() as jwt reads it)
    variant,    \* which server.js is deployed: "static" | "db"
    users,      \* the User collection of the store
    nextOid,    \* ObjectIds the store has generated
    proc,       \* the store-backed process: "connecting" | "connected" | "exited"
                \* ("none" when the static variant is deployed)
    boots,      \* starts of the store-backed process so far
    seed,       \* seedDefaultUsers of the running process: its position and locals
    seedRuns,   \* seeder runs that returned without catching an error
    inflight,   \* requests suspended at an await, per slot
    last,       \* the last request answered, with its response
    served,     \* requests received so far, by either server
    held,       \* the token the client keeps (localStorage authToken)
    damages,    \* the Damages collection of the store, in natural order
    registered, \* the credentials the client registered and got 201 for
    exitCode,   \* the code the store-backed process exited with, if it did
    page,       \* the Login component: its state and where handleSubmit is
    localStorage, \* the browser's localStorage: the items authToken and user
    dash,       \* the Dashboard component: its state and its two fetches
    view        \* the AnalyticsView component: its state and what it shows

vars == << variant, clock, users, nextOid, proc, boots, seed,
           seedRuns, inflight, last, served, held, damages, registered,
           exitCode, page, localStorage, dash, view >>

\* what the servers and their client hold, apart from the count of requests
backend == << variant, clock, users, nextOid, proc, boots, seed, seedRuns,
              inflight, last, held, damages, registered, exitCode >>

\* the requests a server has suspended at an await: one slot each
Slots == DOMAIN inflight

(* --------------------------- requests --------------------------------- *)
NoFields == [username |-> None, password |-> None, name |-> None,
             role |-> None, department |-> None]

\* a request as a handler sees it: req (srv, route, hdr, body, reqUser), the
\* handler's locals, and res (status, resBody, sent)
Req(srv, route, hdr, body) ==
    [srv |-> srv, route |-> route, hdr |-> hdr, body |-> body,
     at |-> 0,                  \* the time jwt.verify read, once it ran
     pc |-> "recv",
     reqUser |-> None,          \* req.user
     handler |-> FALSE,         \* the route handler was entered
     user |-> Unset,            \* const user = await User.findOne / findById
     isPasswordValid |-> Unset, \* const isPasswordValid = await bcrypt.compare
     hashedPassword |-> Unset,  \* const hashedPassword = await bcrypt.hash
     token |-> Unset,           \* const token = jwt.sign(...)
     status |-> 0, resBody |-> << >>, sent |-> 0]

Idle == [Req("none", "none", None, NoFields) EXCEPT !.pc = "idle"]

\* res.status(code).json(body): Express answers 200 when no status was set
Respond(r, code, body) ==
    [r EXCEPT !.status = code, !.resBody = body, !.sent = r.sent + 1,
              !.pc = "done"]

Message(m) == [message |-> m]

(* ------------------------- the auth gate ------------------------------ *)
\* the token is taken only from a header whose first segment is Bearer
ExtractTokenChecksScheme(authHeader) ==
    IF authHeader = None \/ authHeader = Some(<< >>) THEN authHeader
    ELSE IF At(Split(authHeader[1]), 0) # Some(<< Word("Bearer") >>) THEN None
    ELSE At(Split(authHeader[1]), 1)

\* const token = authHeader && authHeader.split(' ')[1]
ExtractToken(authHeader) ==
    IF authHeader = None \/ authHeader = Some(<< >>) THEN authHeader
    ELSE At(Split(authHeader[1]), 1)

AuthGateSkipsVerify(r, now) ==
    LET token == ExtractToken(r.hdr)
    IN  IF token = None \/ token = Some(<< >>)
        THEN Respond(r, 401, Message("Access token required"))
        ELSE IF IsJwt(token[1])
             THEN [r EXCEPT !.reqUser = Some(token[1][1].payload), !.at = now]
             ELSE Respond(r, 403, Message("Invalid or expired token"))

AuthGateLetsMissingThrough(r, now) ==
    LET token == ExtractToken(r.hdr)
        v == JwtVerify(IF token = None THEN << >> ELSE token[1], JWT_SECRET, now)
    IN  IF v.err # "" THEN [r EXCEPT !.reqUser = Some([id |-> NumId(1),
                               username |-> "admin", role |-> "admin",
                               iat |-> now, exp |-> now + ExpiresIn])]
        ELSE [r EXCEPT !.reqUser = v.decoded]

AuthGateAnswers401ForBadToken(r, now) ==
    LET token == ExtractToken(r.hdr)
    IN  IF token = None \/ token = Some(<< >>)
        THEN Respond(r, 401, Message("Access token required"))
        ELSE LET v == JwtVerify(token[1], JWT_SECRET, now)
                 q == [r EXCEPT !.at = now]
             IN  IF v.err # ""
                 THEN Respond(q, 401, Message("Invalid or expired token"))
                 ELSE [q EXCEPT !.reqUser = v.decoded]

\* authenticateToken(req, res, next): the request answered (pc = "done"), or
\* the request with req.user set, on which next() runs the route handler
authenticateToken(r, now) ==
    LET token == ExtractToken(r.hdr)
    IN  IF token = None \/ token = Some(<< >>)
        THEN Respond(r, 401, Message("Access token required"))
        ELSE LET v == JwtVerify(token[1], JWT_SECRET, now)
                 q == [r EXCEPT !.at = now]
             IN  IF v.err # ""
                 THEN Respond(q, 403, Message("Invalid or expired token"))
                 ELSE [q EXCEPT !.reqUser = v.decoded]

\* next() was called
Proceeds(r) == r.pc # "done"

(* -------------------------- user records ------------------------------ *)
\* const { password, ...userWithoutPassword } = user
\* (and Mongoose's .select("-password"))
WithPasswordLeft(u) == u

WithoutPassword(u) == [f \in DOMAIN u \ {"password"} |-> u[f]]

\* STATIC_USERS: the literal hashes are those of the passwords in the comments
STATIC_USERS ==
    { [id |-> NumId(1), username |-> "admin",
       password |-> BcryptHash("government123", SaltRounds, "gG9AA3ay2hfKLzdkIcEry."),
       name |-> "Administrator", role |-> "admin",
       department |-> "System Administration"],
      [id |-> NumId(2), username |-> "officer",
       password |-> BcryptHash("officer456", SaltRounds, "oA4YewNVMnhI/reNaDf9iO"),
       name |-> "John Officer", role |-> "officer",
       department |-> "Public Services"] }

\* array.find / User.findOne: a match, or undefined / null
FirstOf(matches) ==
    IF matches = {} THEN None ELSE Some(CHOOSE u \in matches : TRUE)

\* STATIC_USERS.find(user => user.username === username)
findUserByUsername(username) ==
    FirstOf({ u \in STATIC_USERS : Some(u.username) = username })

(* ------------------------- what clients send -------------------------- *)
\* a held token with its payload edited and the signature left as it was
Tampered(t) ==
    { [t EXCEPT !.payload.role = "admin"],
      [t EXCEPT !.payload.exp = @ + ExpiresIn] }

\* a held token's payload signed again with a secret that is not the server's
Resigned(t) == [payload |-> t.payload, sig |-> Hmac("not-the-secret", t.payload)]

TokenChars ==
    {Word("garbage")} \cup
    (IF held = None THEN {}
     ELSE {held[1], Resigned(held[1])} \cup Tampered(held[1]))

\* the Authorization headers tried: none, empty, the scheme alone, and
\* "Bearer <token>"
Headers ==
    {None, Some(<< >>), Some(<< Word("Bearer") >>)} \cup
    { Some(<< Word("Bearer"), SP, t >>) : t \in TokenChars }

\* the scheme words tried in front of a token
SchemeWords == {Word("Bearer"), Word("Basic"), Word("bearer")}

\* Authorization headers of every shape (Node trims the value, so none
\* begins or ends with a space): none, empty, one segment (a scheme or a
\* token alone), a scheme and a token, the same with a third segment, and a
\* token after two spaces
HeadersOfAnyShape ==
    {None, Some(<< >>)}
    \cup { Some(<< w >>) : w \in SchemeWords \cup TokenChars }
    \cup { Some(<< w, SP, t >>) : w \in SchemeWords, t \in TokenChars }
    \cup { Some(<< w, SP, t, SP, Word("x") >>) :
              w \in SchemeWords, t \in TokenChars }
    \cup { Some(<< w, SP, SP, t >>) : w \in SchemeWords, t \in TokenChars }

UsernamesTried == {None, Some(""), Some("admin"), Some("alice")}
PasswordsTried == {None, Some(""), Some("government123"), Some("hunter2")}
PasswordsChosen == {None, Some(""), Some("hunter2")}

LoginBodies ==
    { [NoFields EXCEPT !.username = u, !.password = p] :
        u \in UsernamesTried, p \in PasswordsTried }

RegisterBodies ==
    { [username |-> u, password |-> p, name |-> Some("Alice Citizen"),
       role |-> Some("officer"), department |-> Some("Roads")] :
        u \in UsernamesTried, p \in PasswordsChosen }

(* -------------------- completing and suspending ----------------------- *)
\* the handler returned after answering: the response is on the wire
Answer(r) == last' = r

\* the handler of slot s is suspended at an await, or has answered
Continue(s, r) ==
    IF r.pc = "done"
    THEN /\ inflight' = [inflight EXCEPT ![s] = Idle]
         /\ last' = r
    ELSE /\ inflight' = [inflight EXCEPT ![s] = r]
         /\ UNCHANGED last

\* An answer is read by the client as soon as it is sent: no step of a server
\* reads `last`, so reading it first loses no behaviour of the servers.
Quiet == last.pc = "idle"

\* a request arrives
Receive == served < MaxRequests /\ served' = served + 1

At_(s, srv, route, pc) ==
    /\ inflight[s].srv = srv
    /\ inflight[s].route = route
    /\ inflight[s].pc = pc

(* ----------------------- the static-user server ----------------------- *)
\* if (!user) return res.status(401).json({ message: 'Invalid credentials' })
StaticLoginNoUser(r) == Respond(r, 401, Message("Invalid credentials"))

\* if (!isPasswordValid) return res.status(401).json({ message: ... })
StaticLoginBadPassword(r) == Respond(r, 401, Message("Invalid credentials"))

\* POST /api/login up to `await bcrypt.compare`
StaticLoginRecv(s, body) ==
    /\ Quiet
    /\ variant = "static"
    /\ Receive
    /\ inflight[s].pc = "idle"
    /\ LET r == [Req("static", "login", None, body) EXCEPT !.handler = TRUE]
       IN  IF FalsyStr(body.username) \/ FalsyStr(body.password)
           THEN Continue(s, Respond(r, 400,
                         Message("Username and password are required")))
           ELSE LET user == findUserByUsername(body.username)
                IN  IF user = None
                    THEN Continue(s, StaticLoginNoUser([r EXCEPT
                                                            !.user = Ran(user)]))
                    ELSE Continue(s, [r EXCEPT !.user = Ran(user),
                                               !.pc = "compare"])
    /\ UNCHANGED << variant, damages, registered, exitCode, page, localStorage, dash, view, clock, users, nextOid, proc, boots, seed,
                    seedRuns, held >>

\* POST /api/login from the result of bcrypt.compare to the response
StaticLoginCompare(s) ==
    /\ Quiet
    /\ At_(s, "static", "login", "compare")
    /\ LET r0 == inflight[s]
           user == r0.user[1][1]
           valid == BcryptCompare(r0.body.password[1], user.password)
           r == [r0 EXCEPT !.isPasswordValid = Ran(valid)]
       IN  IF ~valid
           THEN Continue(s, StaticLoginBadPassword(r))
           ELSE LET token == JwtSign([id |-> user.id, username |-> user.username,
                                      role |-> user.role],
                                     JWT_SECRET, ExpiresIn, clock)
                IN  Continue(s, Respond([r EXCEPT !.token = Ran(token)], 200,
                        [message |-> "Login successful", token |-> token,
                         user |-> WithoutPassword(user)]))
    /\ UNCHANGED << variant, damages, registered, exitCode, page, localStorage, dash, view, clock, users, nextOid, proc, boots, seed,
                    seedRuns, served, held >>

\* GET /api/user behind the gate
StaticUser(hdr) ==
    /\ Quiet
    /\ variant = "static"
    /\ Receive
    /\ LET g == authenticateToken(Req("static", "user", hdr, NoFields), clock)
       IN  IF ~Proceeds(g) THEN Answer(g)
           ELSE LET r == [g EXCEPT !.handler = TRUE]
                    user == FirstOf({ u \in STATIC_USERS :
                                        u.id = r.reqUser[1].id })
                IN  IF user = None
                    THEN Answer(Respond([r EXCEPT !.user = Ran(user)], 404,
                                        Message("User not found")))
                    ELSE Answer(Respond([r EXCEPT !.user = Ran(user)], 200,
                                        [user |-> WithoutPassword(user[1])]))
    /\ UNCHANGED << variant, damages, registered, exitCode, page, localStorage, dash, view, clock, users, nextOid, proc, boots, seed,
                    seedRuns, inflight, held >>

HealthBody(now) ==
    [status |-> "OK", message |-> "Government Portal API is running",
     timestamp |-> now]

\* GET /api/health
StaticHealth ==
    /\ Quiet
    /\ variant = "static"
    /\ Receive
    /\ Answer(Respond([Req("static", "health", None, NoFields)
                           EXCEPT !.handler = TRUE], 200, HealthBody(clock)))
    /\ UNCHANGED << variant, damages, registered, exitCode, page, localStorage, dash, view, clock, users, nextOid, proc, boots, seed,
                    seedRuns, inflight, held >>

StatsBody(now) ==
    [totalUsers |-> 1247, activeServices |-> 23, pendingRequests |-> 156,
     systemHealth |-> "Operational", lastUpdated |-> now]

\* GET /api/dashboard/stats behind the gate
StaticStats(hdr) ==
    /\ Quiet
    /\ variant = "static"
    /\ Receive
    /\ LET g == authenticateToken(Req("static", "stats", hdr, NoFields), clock)
       IN  IF ~Proceeds(g) THEN Answer(g)
           ELSE Answer(Respond([g EXCEPT !.handler = TRUE], 200, StatsBody(clock)))
    /\ UNCHANGED << variant, damages, registered, exitCode, page, localStorage, dash, view, clock, users, nextOid, proc, boots, seed,
                    seedRuns, inflight, held >>

\* POST /api/logout behind the gate
StaticLogout(hdr) ==
    /\ Quiet
    /\ variant = "static"
    /\ Receive
    /\ LET g == authenticateToken(Req("static", "logout", hdr, NoFields), clock)
       IN  IF ~Proceeds(g) THEN Answer(g)
           ELSE Answer(Respond([g EXCEPT !.handler = TRUE], 200,
                               Message("Logged out successfully")))
    /\ UNCHANGED << variant, damages, registered, exitCode, page, localStorage, dash, view, clock, users, nextOid, proc, boots, seed,
                    seedRuns, inflight, held >>

(* ------------------------------ the store ----------------------------- *)
\* User.findOne({ username })
FindOne(username) == FirstOf({ u \in users : Some(u.username) = username })

\* the unique index on username: an insert of a taken username is rejected
\* with the duplicate-key error
DuplicateKey(username) == \E u \in users : u.username = username

InsertIgnoresUnique(doc) == users' = users \cup {doc}

InsertReplaces(doc) ==
    users' = { u \in users : u.username # doc.username } \cup {doc}

\* a successful insert of a document
Insert(doc) == users' = users \cup {doc} /\ ~DuplicateKey(doc.username)

\* new User({...}) / User.create({...}): the document with its generated _id
NewUser(username, hashedPassword, name, role, department) ==
    [id |-> ObjectId(nextOid + 1), username |-> username,
     password |-> hashedPassword, name |-> name, role |-> role,
     department |-> department]

\* the store connection serves queries once connected (Mongoose buffers
\* them until then)
StoreReady == proc = "connected"

\* requests are served while the process runs (app.listen does not wait for
\* the connection)
Listening == proc \in {"connecting", "connected"}

(* --------------------------- seedDefaultUsers ------------------------- *)
SeedOff == [pc |-> "off", existingAdmin |-> Unset, existingOfficer |-> Unset,
            hashedPassword |-> Unset, hashes |-> 0, error |-> FALSE]

\* the catch block: log and return
SeedCaught == seed' = [seed EXCEPT !.pc = "done", !.error = TRUE]

\* the seeder returns from its try block
SeedReturn(sd) == seed' = [sd EXCEPT !.pc = "done"] /\ seedRuns' = seedRuns + 1

\* const existingAdmin = await User.findOne({ username: "admin" })
SeedFindAdmin ==
    /\ Quiet
    /\ StoreReady /\ seed.pc = "findAdmin"
    /\ \/ seed' = [seed EXCEPT !.existingAdmin = Ran(FindOne(Some("admin"))),
                               !.pc = "findOfficer"]
       \/ SeedCaught
    /\ UNCHANGED << variant, damages, registered, exitCode, page, localStorage, dash, view, clock, users, nextOid, proc, boots,
                    seedRuns, inflight, last, served, held >>

\* where the seeder goes once the officer block is reached
SeedOfficerBlock(sd) ==
    IF sd.existingOfficer[1] = None
    THEN seed' = [sd EXCEPT !.pc = "hashOfficer"] /\ UNCHANGED seedRuns
    ELSE SeedReturn(sd)

SeedAlwaysCreatesAdmin(sd) ==
    seed' = [sd EXCEPT !.pc = "hashAdmin"] /\ UNCHANGED seedRuns

\* where the seeder goes once both lookups returned: if (!existingAdmin)
SeedAdminBlock(sd) ==
    IF sd.existingAdmin[1] = None
    THEN seed' = [sd EXCEPT !.pc = "hashAdmin"] /\ UNCHANGED seedRuns
    ELSE SeedOfficerBlock(sd)

\* const existingOfficer = await User.findOne({ username: "officer" })
SeedFindOfficer ==
    /\ Quiet
    /\ StoreReady /\ seed.pc = "findOfficer"
    /\ \/ SeedAdminBlock([seed EXCEPT
                            !.existingOfficer = Ran(FindOne(Some("officer")))])
       \/ SeedCaught /\ UNCHANGED seedRuns
    /\ UNCHANGED << variant, damages, registered, exitCode, page, localStorage, dash, view, clock, users, nextOid, proc, boots,
                    inflight, last, served, held >>

\* const hashedPassword = await bcrypt.hash("government123", 10)
SeedHashAdmin ==
    /\ Quiet
    /\ seed.pc = "hashAdmin"
    /\ \E salt \in Salts :
         seed' = [seed EXCEPT !.pc = "createAdmin", !.hashes = @ + 1,
                    !.hashedPassword =
                        Ran(BcryptHash("government123", SaltRounds, salt))]
    /\ UNCHANGED << variant, damages, registered, exitCode, page, localStorage, dash, view, clock, users, nextOid, proc, boots, seedRuns,
                    inflight, last, served, held >>

\* await User.create({ username: "admin", ... })
SeedCreateAdmin ==
    /\ Quiet
    /\ StoreReady /\ seed.pc = "createAdmin"
    /\ \/ /\ Insert(NewUser("admin", seed.hashedPassword[1], "Administrator",
                            "admin", "System Administration"))
          /\ nextOid' = nextOid + 1
          /\ SeedOfficerBlock(seed)
       \/ SeedCaught /\ UNCHANGED << users, nextOid, seedRuns >>
    /\ UNCHANGED << variant, damages, registered, exitCode, page, localStorage, dash, view, clock, proc, boots, inflight, last, served, held >>

\* const hashedPassword = await bcrypt.hash("officer456", 10)
SeedHashOfficer ==
    /\ Quiet
    /\ seed.pc = "hashOfficer"
    /\ \E salt \in Salts :
         seed' = [seed EXCEPT !.pc = "createOfficer", !.hashes = @ + 1,
                    !.hashedPassword =
                        Ran(BcryptHash("officer456", SaltRounds, salt))]
    /\ UNCHANGED << variant, damages, registered, exitCode, page, localStorage, dash, view, clock, users, nextOid, proc, boots, seedRuns,
                    inflight, last, served, held >>

\* await User.create({ username: "officer", ... })
SeedCreateOfficer ==
    /\ Quiet
    /\ StoreReady /\ seed.pc = "createOfficer"
    /\ \/ /\ Insert(NewUser("officer", seed.hashedPassword[1], "John Officer",
                            "officer", "Public Services"))
          /\ nextOid' = nextOid + 1
          /\ SeedReturn(seed)
       \/ SeedCaught /\ UNCHANGED << users, nextOid, seedRuns >>
    /\ UNCHANGED << variant, damages, registered, exitCode, page, localStorage, dash, view, clock, proc, boots, inflight, last, served, held >>

(* ----------------------- the process and its store -------------------- *)
\* requests of the store-backed process die with it
DropRequests ==
    inflight' = [s \in Slots |->
                    IF inflight[s].srv = "db" THEN Idle ELSE inflight[s]]

\* connected, and seedDefaultUsers is not called
ConnectedWithoutSeeding ==
    /\ Quiet
    /\ proc = "connecting"
    /\ proc' = "connected"
    /\ UNCHANGED << variant, damages, registered, exitCode, page, localStorage, dash, view, clock, users, nextOid, boots, seed, seedRuns,
                    inflight, last, served, held >>

\* mongoose.connect(...).then: connected, the seeder starts
Connected ==
    /\ Quiet
    /\ proc = "connecting"
    /\ proc' = "connected"
    /\ seed' = [SeedOff EXCEPT !.pc = "findAdmin"]
    /\ UNCHANGED << variant, damages, registered, exitCode, page, localStorage, dash, view, clock, users, nextOid, boots, seedRuns,
                    inflight, last, served, held >>

\* the rejection of mongoose.connect is logged and the seeder is called all
\* the same
ConnectFailedSeedsAnyway ==
    /\ Quiet
    /\ proc = "connecting"
    /\ proc' = "exited" /\ exitCode' = Some(1)
    /\ seed' = [SeedOff EXCEPT !.pc = "findAdmin"]
    /\ DropRequests
    /\ UNCHANGED << variant, damages, registered, page, localStorage, dash, view, clock, users, nextOid, boots,
                    seedRuns, last, served, held >>

\* mongoose.connect(...).catch: process.exit(1)
ConnectFailed ==
    /\ Quiet
    /\ proc = "connecting"
    /\ proc' = "exited" /\ exitCode' = Some(1)
    /\ DropRequests
    /\ UNCHANGED << variant, damages, registered, page, localStorage, dash, view, clock, users, nextOid, boots, seed,
                    seedRuns, last, served, held >>

\* the process is started again (by its operator) against the same store
Restart ==
    /\ Quiet
    /\ variant = "db"
    /\ boots < MaxBoots
    /\ boots' = boots + 1
    /\ proc' = "connecting"
    /\ seed' = SeedOff /\ exitCode' = None
    /\ DropRequests
    /\ UNCHANGED << variant, damages, registered, page, localStorage, dash, view, clock, users, nextOid, seedRuns, last,
                    served, held >>

(* ---------------------- the store-backed server ----------------------- *)
CaughtAnswers409(s) == Continue(s, Respond(inflight[s], 409,
                                           Message("Username already exists")))

\* the catch block of a handler: 500 with the generic message
Caught(s) == Continue(s, Respond(inflight[s], 500,
                                 Message("Internal server error")))

\* POST /api/register up to `await bcrypt.hash`
RegisterRecv(s, body) ==
    /\ Quiet
    /\ Receive
    /\ Listening /\ inflight[s].pc = "idle"
    /\ LET r == [Req("db", "register", None, body) EXCEPT !.handler = TRUE]
       IN  IF FalsyStr(body.username) \/ FalsyStr(body.password)
           THEN Continue(s, Respond(r, 400,
                         Message("Username and password required")))
           ELSE Continue(s, [r EXCEPT !.pc = "hash"])
    /\ UNCHANGED << variant, damages, registered, exitCode, page, localStorage, dash, view, clock, users, nextOid, proc, boots, seed,
                    seedRuns, held >>

\* the hash taken of the username in place of the password
RegisterHashOfUsername(s) ==
    /\ Quiet
    /\ At_(s, "db", "register", "hash")
    /\ \/ \E salt \in Salts :
            Continue(s, [inflight[s] EXCEPT !.pc = "save", !.hashedPassword =
                Ran(BcryptHash(inflight[s].body.username[1], SaltRounds, salt))])
       \/ Caught(s)
    /\ UNCHANGED << variant, damages, registered, exitCode, page, localStorage, dash, view, clock, users, nextOid, proc, boots, seed, seedRuns,
                    served, held >>

\* const hashedPassword = await bcrypt.hash(password, 10): the hash, or a
\* rejection of bcrypt that the catch block answers
RegisterHash(s) ==
    /\ Quiet
    /\ At_(s, "db", "register", "hash")
    /\ \/ \E salt \in Salts :
            Continue(s, [inflight[s] EXCEPT !.pc = "save", !.hashedPassword =
                Ran(BcryptHash(inflight[s].body.password[1], SaltRounds, salt))])
       \/ Caught(s)
    /\ UNCHANGED << variant, damages, registered, exitCode, page, localStorage, dash, view, clock, users, nextOid, proc, boots, seed, seedRuns,
                    served, held >>

\* newUser.save() without its await: 201 whether or not the insert succeeds
RegisterSaveNotAwaited(s) ==
    /\ Quiet
    /\ StoreReady /\ At_(s, "db", "register", "save")
    /\ LET r == inflight[s]
       IN  /\ \/ /\ Insert(NewUser(r.body.username[1], r.hashedPassword[1],
                                   r.body.name[1], r.body.role[1],
                                   r.body.department[1]))
                 /\ nextOid' = nextOid + 1
              \/ UNCHANGED << users, nextOid >>
           /\ Continue(s, Respond(r, 201,
                          Message("User registered successfully")))
    /\ UNCHANGED << variant, damages, registered, exitCode, page, localStorage, dash, view, clock, proc, boots, seed, seedRuns, served, held >>

\* await newUser.save() and the response
RegisterSave(s) ==
    /\ Quiet
    /\ StoreReady /\ At_(s, "db", "register", "save")
    /\ LET r == inflight[s]
       IN  \/ /\ Insert(NewUser(r.body.username[1], r.hashedPassword[1],
                                r.body.name[1], r.body.role[1],
                                r.body.department[1]))
              /\ nextOid' = nextOid + 1
              /\ Continue(s, Respond(r, 201,
                             Message("User registered successfully")))
           \/ Caught(s) /\ UNCHANGED << users, nextOid >>
    /\ UNCHANGED << variant, damages, registered, exitCode, page, localStorage, dash, view, clock, proc, boots, seed, seedRuns, served, held >>

LoginNoUserSays404(r) == Respond(r, 404, Message("User not found"))

\* if (!user) return res.status(401).json({ message: 'Invalid credentials' })
LoginNoUser(r) == Respond(r, 401, Message("Invalid credentials"))

\* the same without its return: the handler goes on and answers again
LoginBadPasswordFallsThrough(r) ==
    Respond(Respond(r, 401, Message("Invalid credentials")),
            500, Message("Internal server error"))

\* if (!isPasswordValid) return res.status(401).json({ message: ... })
LoginBadPassword(r) == Respond(r, 401, Message("Invalid credentials"))

\* POST /api/login up to `await User.findOne`
LoginRecv(s, body) ==
    /\ Quiet
    /\ Receive
    /\ Listening /\ inflight[s].pc = "idle"
    /\ LET r == [Req("db", "login", None, body) EXCEPT !.handler = TRUE]
       IN  IF FalsyStr(body.username) \/ FalsyStr(body.password)
           THEN Continue(s, Respond(r, 400,
                         Message("Username and password are required")))
           ELSE Continue(s, [r EXCEPT !.pc = "findOne"])
    /\ UNCHANGED << variant, damages, registered, exitCode, page, localStorage, dash, view, clock, users, nextOid, proc, boots, seed,
                    seedRuns, held >>

\* const user = await User.findOne({ username })
LoginFindOne(s) ==
    /\ Quiet
    /\ StoreReady /\ At_(s, "db", "login", "findOne")
    /\ \/ LET user == FindOne(inflight[s].body.username)
              r == [inflight[s] EXCEPT !.user = Ran(user)]
          IN  IF user = None
              THEN Continue(s, LoginNoUser(r))
              ELSE Continue(s, [r EXCEPT !.pc = "compare"])
       \/ Caught(s)
    /\ UNCHANGED << variant, damages, registered, exitCode, page, localStorage, dash, view, clock, users, nextOid, proc, boots, seed,
                    seedRuns, served, held >>

\* POST /api/login from the result of bcrypt.compare to the response; a
\* rejection of bcrypt.compare goes to the catch block
LoginCompare(s) ==
    /\ Quiet
    /\ At_(s, "db", "login", "compare")
    /\ \/ LET r0 == inflight[s]
              user == r0.user[1][1]
              valid == BcryptCompare(r0.body.password[1], user.password)
              r == [r0 EXCEPT !.isPasswordValid = Ran(valid)]
          IN  IF ~valid
              THEN Continue(s, LoginBadPassword(r))
              ELSE LET token == JwtSign([id |-> user.id,
                                         username |-> user.username,
                                         role |-> user.role],
                                        JWT_SECRET, ExpiresIn, clock)
                   IN  Continue(s, Respond([r EXCEPT !.token = Ran(token)], 200,
                           [message |-> "Login successful", token |-> token,
                            user |-> WithoutPassword(user)]))
       \/ Caught(s)
    /\ UNCHANGED << variant, damages, registered, exitCode, page, localStorage, dash, view, clock, users, nextOid, proc, boots, seed,
                    seedRuns, served, held >>

\* GET /api/user: the gate, then the handler up to `await User.findById`
UserRecv(s, hdr) ==
    /\ Quiet
    /\ Receive
    /\ Listening /\ inflight[s].pc = "idle"
    /\ LET g == authenticateToken(Req("db", "user", hdr, NoFields), clock)
       IN  IF ~Proceeds(g) THEN Continue(s, g)
           ELSE Continue(s, [g EXCEPT !.handler = TRUE, !.pc = "findById"])
    /\ UNCHANGED << variant, damages, registered, exitCode, page, localStorage, dash, view, clock, users, nextOid, proc, boots, seed,
                    seedRuns, held >>

\* Mongoose casts the id to an ObjectId and throws a CastError when it is none
IsObjectId(id) == DOMAIN id = {"oid"}

FindByIdFirstRecord(id) == FirstOf(users)

\* User.findById(id): the record with that _id, or null
FindById(id) == FirstOf({ u \in users : u.id = id })

\* const user = await User.findById(req.user.id).select("-password")
UserFindById(s) ==
    /\ Quiet
    /\ StoreReady /\ At_(s, "db", "user", "findById")
    /\ LET r0 == inflight[s]
           id == r0.reqUser[1].id
       IN  \/ /\ IsObjectId(id)
              /\ LET found == FindById(id)
                     user == IF found = None THEN None
                             ELSE Some(WithoutPassword(found[1]))
                     r == [r0 EXCEPT !.user = Ran(user)]
                 IN  IF user = None
                     THEN Continue(s, Respond(r, 404, Message("User not found")))
                     ELSE Continue(s, Respond(r, 200, [user |-> user[1]]))
           \/ Caught(s)
    /\ UNCHANGED << variant, damages, registered, exitCode, page, localStorage, dash, view, clock, users, nextOid, proc, boots, seed,
                    seedRuns, served, held >>

\* GET /api/dashboard/stats behind the gate
Stats(hdr) ==
    /\ Quiet
    /\ Receive
    /\ Listening
    /\ LET g == authenticateToken(Req("db", "stats", hdr, NoFields), clock)
       IN  IF ~Proceeds(g) THEN Answer(g)
           ELSE Answer(Respond([g EXCEPT !.handler = TRUE], 200, StatsBody(clock)))
    /\ UNCHANGED << variant, damages, registered, exitCode, page, localStorage, dash, view, clock, users, nextOid, proc, boots, seed,
                    seedRuns, inflight, held >>

\* GET /api/health
Health ==
    /\ Quiet
    /\ Receive
    /\ Listening
    /\ Answer(Respond([Req("db", "health", None, NoFields)
                           EXCEPT !.handler = TRUE], 200, HealthBody(clock)))
    /\ UNCHANGED << variant, damages, registered, exitCode, page, localStorage, dash, view, clock, users, nextOid, proc, boots, seed,
                    seedRuns, inflight, held >>

\* POST /api/logout: this server registers no such route, so no middleware
\* answers and Express ends the request with its 404 page
Logout(hdr) ==
    /\ Quiet
    /\ Receive
    /\ Listening
    /\ Answer(Respond(Req("db", "logout", hdr, NoFields), 404,
                      [html |-> "Cannot POST /api/logout"]))
    /\ UNCHANGED << variant, damages, registered, exitCode, page, localStorage, dash, view, clock, users, nextOid, proc, boots, seed,
                    seedRuns, inflight, held >>

(* ------------------------- the damages router ------------------------- *)
\* documents of the Damages model
Damage(id, type, severity, status) ==
    [id |-> id, type |-> type, severity |-> severity,
     location |-> "Main Street", coords |-> [lat |-> 22, lng |-> 73],
     description |-> "reported by a citizen", reportedDate |-> 0,
     status |-> status]

Pothole == Damage(1, "Pothole", "High", "Reported")
Crack == Damage(2, "Crack", "Low", "Resolved")

\* the route behind the gate, as the other routes of the server are
DamagesRecvGated(s, hdr) ==
    /\ Quiet
    /\ Receive
    /\ Listening /\ inflight[s].pc = "idle"
    /\ LET g == authenticateToken(Req("db", "damages", hdr, NoFields), clock)
       IN  IF ~Proceeds(g) THEN Continue(s, g)
           ELSE Continue(s, [g EXCEPT !.handler = TRUE, !.pc = "find"])
    /\ UNCHANGED << variant, damages, registered, exitCode, page, localStorage, dash, view, clock, users, nextOid, proc, boots, seed,
                    seedRuns, held >>

\* GET /api/damages/fetch-damages up to `await Damage.find()`: the router is
\* mounted with no middleware before it
DamagesRecv(s, hdr) ==
    /\ Quiet
    /\ Receive
    /\ Listening /\ inflight[s].pc = "idle"
    /\ Continue(s, [Req("db", "damages", hdr, NoFields)
                        EXCEPT !.handler = TRUE, !.pc = "find"])
    /\ UNCHANGED << variant, damages, registered, exitCode, page, localStorage, dash, view, clock, users, nextOid, proc, boots, seed,
                    seedRuns, held >>

\* const damages = await Damage.find(); res.json(damages)
DamagesFind(s) ==
    /\ Quiet
    /\ StoreReady /\ At_(s, "db", "damages", "find")
    /\ \/ Continue(s, Respond(inflight[s], 200, damages))
       \/ Caught(s)
    /\ UNCHANGED << variant, damages, registered, exitCode, page, localStorage, dash, view, clock, users, nextOid, proc, boots, seed,
                    seedRuns, served, held >>

(* --------------------------- the environment -------------------------- *)
\* time passes
Tick ==
    /\ Quiet
    /\ clock < MaxTicks * TickHours
    /\ clock' = clock + TickHours
    /\ UNCHANGED << variant, damages, registered, exitCode, page, localStorage, dash, view, users, nextOid, proc, boots, seed, seedRuns,
                    inflight, last, served, held >>

\* the client reads the answer of a successful login and keeps its token
\* (localStorage.setItem('authToken', data.token))
KeepToken ==
    /\ last.pc = "done"
    /\ last.route = "login" /\ last.status \in 200 .. 299
    /\ held' = Some(last.resBody.token)
    /\ last' = Idle
    /\ UNCHANGED << variant, damages, registered, exitCode, page, localStorage, dash, view, clock, users, nextOid, proc, boots, seed,
                    seedRuns, inflight, served >>

\* the client reads the 201 of a registration and notes the credentials it
\* registered
KeepCredentials ==
    /\ last.pc = "done"
    /\ last.route = "register" /\ last.status = 201
    /\ registered' = registered \cup
           { [username |-> last.body.username[1],
              password |-> last.body.password[1]] }
    /\ last' = Idle
    /\ UNCHANGED << variant, damages, exitCode, page, localStorage, dash, view, clock, users, nextOid, proc, boots, seed,
                    seedRuns, inflight, served, held >>

\* the client reads an answer and keeps nothing of it
Discard ==
    /\ last.pc = "done"
    /\ last' = Idle
    /\ UNCHANGED << variant, damages, registered, exitCode, page, localStorage, dash, view, clock, users, nextOid, proc, boots, seed,
                    seedRuns, inflight, served, held >>

(* --------------------------- the Login page --------------------------- *)
\* useState: credentials, error, loading; pc is where handleSubmit stands
\* ("idle": not running, "fetch": awaiting fetch, "json": awaiting
\* response.json()); onLogin lists the arguments the prop was called with
LoginInitial ==
    [credentials |-> [username |-> "", password |-> ""],
     error |-> "", loading |-> FALSE,
     pc |-> "idle", response |-> None, onLogin |-> << >>]

NoItems == [authToken |-> None, user |-> None]

\* JSON.stringify(value): the text of the value
JsonStringify(value) == [json |-> value]

\* response.ok
Ok(response) == response.status \in 200 .. 299

\* a response: its status and its body, None when the body is not JSON
Response(status, body) == [status |-> status, body |-> body]

\* what a fetch of /api/login can resolve to: the answers of the two
\* servers, an answer of JSON without a message, one with an empty message,
\* and bodies that are not JSON under an ok and under a non-ok status
LoginResponses ==
    { Response(200, Some([message |-> "Login successful",
                          token |-> JwtSign([id |-> NumId(1), username |-> "admin",
                                             role |-> "admin"],
                                            JWT_SECRET, ExpiresIn, 0),
                          user |-> WithoutPassword(findUserByUsername(Some("admin"))[1])])),
      Response(400, Some(Message("Username and password are required"))),
      Response(401, Some(Message("Invalid credentials"))),
      Response(500, Some(Message("Internal server error"))),
      Response(429, Some([error |-> "Too many requests"])),
      Response(503, Some(Message(""))),
      Response(404, None),
      Response(200, None) }

\* what the user types into the two inputs
Typed == [username |-> {"", "admin"},
          password |-> {"", "government123", "hunter2"}]

\* handleChange: the input named name now holds value; the error is cleared
handleChange(name, value) ==
    /\ page' = [page EXCEPT !.credentials[name] = value, !.error = ""]
    /\ UNCHANGED << backend, served, localStorage, dash, view >>

\* handleSubmit up to its fetch: the form submits when both required inputs
\* are filled and the button is not disabled
handleSubmit ==
    /\ ~page.loading
    /\ page.credentials.username # "" /\ page.credentials.password # ""
    /\ Receive
    /\ page' = [page EXCEPT !.loading = TRUE, !.error = "", !.pc = "fetch"]
    /\ UNCHANGED << backend, localStorage, dash, view >>

\* catch and finally of handleSubmit
LoginCaught ==
    page' = [page EXCEPT !.error = "Connection error. Please try again.",
                         !.loading = FALSE, !.pc = "idle", !.response = None]

\* const response = await fetch(...) resolves
LoginFetched(response) ==
    /\ page.pc = "fetch"
    /\ page' = [page EXCEPT !.pc = "json", !.response = Some(response)]
    /\ UNCHANGED << backend, served, localStorage, dash, view >>

\* await fetch(...) rejects: no connection
LoginFetchFailed ==
    /\ page.pc = "fetch"
    /\ LoginCaught
    /\ UNCHANGED << backend, served, localStorage, dash, view >>

\* data.message || 'Login failed'
MessageOr(data, dflt) ==
    IF "message" \in DOMAIN data /\ data.message # "" THEN data.message ELSE dflt

\* a non-ok response sets no error message
LoginParsedSilent ==
    /\ page.pc = "json"
    /\ LET response == page.response[1]
       IN  IF response.body = None
           THEN LoginCaught /\ UNCHANGED localStorage
           ELSE LET data == response.body[1]
                IN  IF Ok(response)
                    THEN /\ localStorage' =
                               [authToken |-> Some(data.token),
                                user |-> Some(JsonStringify(data.user))]
                         /\ page' = [page EXCEPT
                               !.onLogin = Append(@, data.user),
                               !.loading = FALSE, !.pc = "idle",
                               !.response = None]
                    ELSE /\ page' = [page EXCEPT
                               !.loading = FALSE, !.pc = "idle",
                               !.response = None]
                         /\ UNCHANGED localStorage
    /\ UNCHANGED << backend, served, dash, view >>

\* const data = await response.json() settles, and the rest of handleSubmit
LoginParsed ==
    /\ page.pc = "json"
    /\ LET response == page.response[1]
       IN  IF response.body = None
           THEN LoginCaught /\ UNCHANGED localStorage
           ELSE LET data == response.body[1]
                IN  IF Ok(response)
                    THEN /\ localStorage' =
                               [authToken |-> Some(data.token),
                                user |-> Some(JsonStringify(data.user))]
                         /\ page' = [page EXCEPT
                               !.onLogin = Append(@, data.user),
                               !.loading = FALSE, !.pc = "idle",
                               !.response = None]
                    ELSE /\ page' = [page EXCEPT
                               !.error = MessageOr(data, "Login failed"),
                               !.loading = FALSE, !.pc = "idle",
                               !.response = None]
                         /\ UNCHANGED localStorage
    /\ UNCHANGED << backend, served, dash, view >>

(* --------------------------- the Dashboard ---------------------------- *)
\* a calendar date, and the number new Date(...) orders it by
Date(y, m, d) == [y |-> y, m |-> m, d |-> d]
DateValue(date) == (date.y * 12 + date.m) * 31 + date.d

\* a damage record as the pages hold it
Report(id, type, severity, location, reportedDate, status) ==
    [id |-> id, type |-> type, severity |-> severity, location |-> location,
     reportedDate |-> reportedDate, status |-> status]

\* demoDamages
demoDamages ==
    << Report(1, "Pothole", "Critical", "Main Street", Date(2024, 0, 15), "Pending"),
       Report(2, "Crack", "High", "Highway 42", Date(2024, 0, 18), "In Progress"),
       Report(3, "Blocked Drainage", "Medium", "Chennai Road", Date(2024, 0, 20),
              "In Progress"),
       Report(4, "Edge Break", "Low", "Kolkata Street", Date(2024, 0, 22),
              "Completed") >>

\* String.prototype.toLowerCase on the severities and statuses in use
ToLowerCase(str) ==
    CASE str = "Critical" -> "critical"
      [] str = "High" -> "high"
      [] str = "Medium" -> "medium"
      [] str = "Low" -> "low"
      [] str = "Pending" -> "pending"
      [] str = "In Progress" -> "in progress"
      [] str = "Completed" -> "completed"
      [] str = "COMPLETED" -> "completed"
      [] OTHER -> str

\* currentData.filter(d => d[field]?.toLowerCase() === value).length
CountLower(data, field, value) ==
    Cardinality({ i \in 1 .. Len(data) : ToLowerCase(data[i][field]) = value })

ZeroStats ==
    [totalDamages |-> 0, criticalDamages |-> 0, recentReports |-> 0,
     resolvedIssues |-> 0]

\* the object calculateStatsFromData passes to setStats
StatsOf(currentData) ==
    [totalDamages |-> Len(currentData),
     criticalDamages |-> CountLower(currentData, "severity", "critical"),
     recentReports |-> CountLower(currentData, "status", "pending"),
     resolvedIssues |-> CountLower(currentData, "status", "completed")]

\* calculateStatsFromData of the two versions of the component, on the
\* damageData its closure holds
calculateStatsFromData(version, damageData) ==
    IF version = 1
    THEN StatsOf(IF Len(damageData) > 0 THEN damageData ELSE demoDamages)
    ELSE StatsOf(damageData)

\* useState of Dashboard; effectDue: the load effect is to run after this
\* render; damageReq and statsReq: "off", "pending" or "done"; closure: the
\* damageData of the render whose callbacks the effect called; the rest
\* records what the fetches did
DashboardInitial(version) ==
    [version |-> version,
     damageData |-> << >>, stats |-> ZeroStats, dataLoaded |-> FALSE,
     effectDue |-> TRUE, closure |-> << >>,
     damageReq |-> "off", statsReq |-> "off",
     damageFetches |-> 0, statsFetches |-> 0,
     damageOutcome |-> [kind |-> "none", data |-> << >>],
     statsOutcome |-> "none"]

\* the lists GET /api/damages/fetch-damages may answer with
DamageLists ==
    { << >>,
      << Report(7, "Pothole", "Critical", "Ring Road", Date(2025, 8, 3), "Pending") >>,
      << Report(7, "Pothole", "Critical", "Ring Road", Date(2025, 8, 3), "Pending"),
         Report(8, "Crack", "Low", "Station Road", Date(2025, 9, 1), "COMPLETED") >>,
      demoDamages }

\* how the damage fetch can end: ok with a list, ok with a body that is not
\* JSON, not ok, or rejected
DamageOutcomes ==
    { [kind |-> "ok", data |-> list] : list \in DamageLists } \cup
    { [kind |-> k, data |-> << >>] : k \in {"notJson", "notOk", "rejected"} }

\* how the stats fetch can end
StatsOutcomes == {"ok", "notJson", "notOk", "rejected"}

\* the effect starts the fetches again whenever it runs
LoadEffectUnguarded ==
    /\ dash.effectDue
    /\ dash' = [dash EXCEPT !.effectDue = FALSE,
                   !.damageReq = "pending", !.statsReq = "pending",
                   !.damageFetches = @ + 1, !.statsFetches = @ + 1,
                   !.closure = dash.damageData]
    /\ UNCHANGED << backend, served, page, localStorage, view >>

\* useEffect(() => { if (!dataLoaded) { fetchDamageData(); fetchStats(); } },
\* [dataLoaded]): runs after the first render and after a render in which
\* dataLoaded changed, calling the callbacks of that render
LoadEffect ==
    /\ dash.effectDue
    /\ IF ~dash.dataLoaded
       THEN dash' = [dash EXCEPT !.effectDue = FALSE,
                       !.damageReq = "pending", !.statsReq = "pending",
                       !.damageFetches = @ + 1, !.statsFetches = @ + 1,
                       !.closure = dash.damageData]
       ELSE dash' = [dash EXCEPT !.effectDue = FALSE]
    /\ UNCHANGED << backend, served, page, localStorage, view >>

\* fetchDamageData from the point where its fetch settles: the first version
\* falls back to demoDamages, the second only logs; finally sets dataLoaded,
\* which makes the effect due again
DamageFetched(outcome) ==
    /\ dash.damageReq = "pending"
    /\ dash' = [dash EXCEPT
          !.damageData = IF outcome.kind = "ok" THEN outcome.data
                         ELSE IF dash.version = 1 THEN demoDamages
                         ELSE @,
          !.dataLoaded = TRUE,
          !.effectDue = (@ \/ ~dash.dataLoaded),
          !.damageReq = "done",
          !.damageOutcome = outcome]
    /\ UNCHANGED << backend, served, page, localStorage, view >>

\* fetchStats from the point where its fetch settles: setStats(data) on an ok
\* answer, else calculateStatsFromData() of the render the effect ran in
DashStatsFetched(outcome) ==
    /\ dash.statsReq = "pending"
    /\ dash' = [dash EXCEPT
          !.stats = IF outcome = "ok" THEN StatsBody(clock)
                    ELSE calculateStatsFromData(dash.version, dash.closure),
          !.statsReq = "done",
          !.statsOutcome = outcome]
    /\ UNCHANGED << backend, served, page, localStorage, view >>

(* -------------------------- the AnalyticsView ------------------------- *)
\* arr.indexOf(x): the zero-based index of the first x, -1 when there is none
IndexOf(arr, x) ==
    IF \E i \in 1 .. Len(arr) : arr[i] = x
    THEN (CHOOSE i \in 1 .. Len(arr) :
             arr[i] = x /\ \A k \in 1 .. i - 1 : arr[k] # x) - 1
    ELSE -1

\* the severities in alphabetical order
sevOrderAlphabetical == << "Critical", "High", "Low", "Medium" >>

\* const sevOrder = ["Low", "Medium", "High", "Critical"]
sevOrder == << "Low", "Medium", "High", "Critical" >>

\* the comparator data.sort is given under each sortBy (0 under any other)
Compare(sortBy, a, b) ==
    CASE sortBy = "date-asc" -> DateValue(a.reportedDate) - DateValue(b.reportedDate)
      [] sortBy = "date-desc" -> DateValue(b.reportedDate) - DateValue(a.reportedDate)
      [] sortBy = "severity-asc" ->
            IndexOf(sevOrder, a.severity) - IndexOf(sevOrder, b.severity)
      [] sortBy = "severity-desc" ->
            IndexOf(sevOrder, b.severity) - IndexOf(sevOrder, a.severity)
      [] OTHER -> 0

\* x put into the sorted array after the last element that is not to come
\* after it
InsertSorted(sorted, x, sortBy) ==
    LET before == { i \in 1 .. Len(sorted) : Compare(sortBy, sorted[i], x) <= 0 }
        n == IF before = {} THEN 0
             ELSE CHOOSE i \in before : \A k \in before : k <= i
    IN  SubSeq(sorted, 1, n) \o << x >> \o SubSeq(sorted, n + 1, Len(sorted))

RECURSIVE SortFrom(_, _, _, _)
SortFrom(data, i, sorted, sortBy) ==
    IF i > Len(data) THEN sorted
    ELSE SortFrom(data, i + 1, InsertSorted(sorted, data[i], sortBy), sortBy)

\* Array.prototype.sort with the comparator of sortBy: a stable sort
Sort(data, sortBy) == SortFrom(data, 1, << >>, sortBy)

RECURSIVE FilterFrom(_, _, _, _)
FilterFrom(data, i, keep, acc) ==
    IF i > Len(data) THEN acc
    ELSE FilterFrom(data, i + 1, keep,
                    IF i \in keep THEN Append(acc, data[i]) ELSE acc)

\* data.filter(...), given the places of the elements the test keeps
Filter(data, keep) == FilterFrom(data, 1, keep, << >>)

\* str.toLowerCase().includes(lower), for the search terms tried
Includes(str, lower) ==
    \/ lower = "road" /\ str \in {"Ring Road", "Station Road", "Chennai Road"}
    \/ lower = "pothole" /\ str = "Pothole"

\* the memo of filteredData without the copy: where no filter makes a new
\* array, the sort is done on currentData itself
filteredDataNoCopy(currentData, v) ==
    LET searched == IF v.searchTerm # ""
                    THEN Filter(currentData, { i \in 1 .. Len(currentData) :
                            \/ Includes(currentData[i].location, ToLowerCase(v.searchTerm))
                            \/ Includes(currentData[i].type, ToLowerCase(v.searchTerm)) })
                    ELSE currentData
        bySeverity == IF v.severityFilter # "All"
                      THEN Filter(searched, { i \in 1 .. Len(searched) :
                              searched[i].severity = v.severityFilter })
                      ELSE searched
        byType == IF v.typeFilter # "All"
                  THEN Filter(bySeverity, { i \in 1 .. Len(bySeverity) :
                          bySeverity[i].type = v.typeFilter })
                  ELSE bySeverity
        aliased == v.searchTerm = "" /\ v.severityFilter = "All" /\ v.typeFilter = "All"
    IN  [data |-> Sort(byType, v.sortBy),
         currentData |-> IF aliased THEN Sort(byType, v.sortBy) ELSE currentData]

\* the memo of filteredData: the array it returns, and currentData as the
\* memo leaves it (data is a copy, so the sort in place does not touch it)
filteredData(currentData, v) ==
    LET data == currentData
        searched == IF v.searchTerm # ""
                    THEN Filter(data, { i \in 1 .. Len(data) :
                            \/ Includes(data[i].location, ToLowerCase(v.searchTerm))
                            \/ Includes(data[i].type, ToLowerCase(v.searchTerm)) })
                    ELSE data
        bySeverity == IF v.severityFilter # "All"
                      THEN Filter(searched, { i \in 1 .. Len(searched) :
                              searched[i].severity = v.severityFilter })
                      ELSE searched
        byType == IF v.typeFilter # "All"
                  THEN Filter(bySeverity, { i \in 1 .. Len(bySeverity) :
                          bySeverity[i].type = v.typeFilter })
                  ELSE bySeverity
    IN  [data |-> Sort(byType, v.sortBy), currentData |-> currentData]

\* the trend starts in January of this year, shows this many months, and the
\* back button stops at this offset
FirstYear == 2020
TrendWindow == 6
MaxEndIndex == 100

\* Math.max and Math.min
Max(a, b) == IF a >= b THEN a ELSE b
Min(a, b) == IF a <= b THEN a ELSE b

\* arr.slice(start, end): a negative index counts from the end of the array
SliceIndex(len, i) == IF i < 0 THEN Max(len + i, 0) ELSE Min(i, len)
Slice(arr, start, end) ==
    SubSeq(arr, SliceIndex(Len(arr), start) + 1, SliceIndex(Len(arr), end))

\* months: one entry for each month from January of FirstYear to the month
\* of now, with the number of records reported in it
Months(currentData, now) ==
    [k \in 1 .. Max((now.y - FirstYear) * 12 + now.m + 1, 0) |->
        LET y == FirstYear + (k - 1) \div 12
            m == (k - 1) % 12
        IN  [key |-> << y, m >>,
             damages |-> Cardinality({ i \in 1 .. Len(currentData) :
                            /\ currentData[i].reportedDate.y = y
                            /\ currentData[i].reportedDate.m = m })]]

\* the memo of monthlyTrendData
monthlyTrendData(currentData, endIndex, now) ==
    IF Len(currentData) = 0 THEN << >>
    ELSE LET months == Months(currentData, now)
             sliceEnd == Len(months) - endIndex
             sliceStart == Max(0, sliceEnd - TrendWindow)
         IN  Slice(months, sliceStart, sliceEnd)

\* useState of AnalyticsView, with the day the browser is at and the values
\* of the two memos
ViewState(now) ==
    [searchTerm |-> "", severityFilter |-> "All", typeFilter |-> "All",
     sortBy |-> "date-desc", endIndex |-> 0, now |-> now,
     filteredData |-> << >>, monthlyTrendData |-> << >>]

\* a render of AnalyticsView with the state v: both memos computed
Render(v) ==
    /\ view' = [v EXCEPT
          !.filteredData = filteredData(dash.damageData, v).data,
          !.monthlyTrendData = monthlyTrendData(dash.damageData, v.endIndex, v.now)]
    /\ dash' = [dash EXCEPT !.damageData = filteredData(dash.damageData, v).currentData]

ViewInitial == ViewState(Date(2026, 10, 4))

\* the choices of the three selects and what is typed into the search box
SortChoices == {"date-asc", "date-desc", "severity-asc", "severity-desc"}
SeverityChoices == {"All", "Low", "Medium", "High", "Critical"}
TypeChoices == {"All", "Pothole", "Crack"}
SearchTerms == {"", "Road"}

setSortBy(value) ==
    /\ Render([view EXCEPT !.sortBy = value])
    /\ UNCHANGED << backend, served, page, localStorage >>

setSeverityFilter(value) ==
    /\ Render([view EXCEPT !.severityFilter = value])
    /\ UNCHANGED << backend, served, page, localStorage >>

setTypeFilter(value) ==
    /\ Render([view EXCEPT !.typeFilter = value])
    /\ UNCHANGED << backend, served, page, localStorage >>

setSearchTerm(value) ==
    /\ Render([view EXCEPT !.searchTerm = value])
    /\ UNCHANGED << backend, served, page, localStorage >>

\* the left button: setEndIndex(prev => Math.min(prev + 1, 100))
TrendBack ==
    /\ Render([view EXCEPT !.endIndex = Min(@ + 1, MaxEndIndex)])
    /\ UNCHANGED << backend, served, page, localStorage >>

\* the right button, disabled at 0: setEndIndex(prev => Math.max(prev - 1, 0))
TrendForward ==
    /\ view.endIndex # 0
    /\ Render([view EXCEPT !.endIndex = Max(@ - 1, 0)])
    /\ UNCHANGED << backend, served, page, localStorage >>

\* no page of the frontend is in use
FrontendIdle ==
    /\ page = LoginInitial
    /\ localStorage = NoItems
    /\ dash = DashboardInitial(2)
    /\ view = ViewInitial

\* the servers are not in use
BackendIdle ==
    /\ variant = "db"
    /\ clock = 0
    /\ users = {} /\ nextOid = 0
    /\ proc = "connecting" /\ boots = 1
    /\ seed = SeedOff /\ seedRuns = 0
    /\ inflight = [s \in {1} |-> Idle]
    /\ last = Idle
    /\ served = 0
    /\ damages = << Pothole, Crack >>
    /\ registered = {}
    /\ exitCode = None
    /\ held = None

(* --------------------------- specification ---------------------------- *)
Init ==
    /\ variant \in {"static", "db"}
    /\ clock = 0
    /\ users = {} /\ nextOid = 0
    /\ proc = (IF variant = "db" THEN "connecting" ELSE "none")
    /\ boots = (IF variant = "db" THEN 1 ELSE 0)
    /\ seed = SeedOff /\ seedRuns = 0
    /\ inflight = [s \in {1} |-> Idle]
    /\ last = Idle
    /\ served = 0
    /\ damages = << Pothole, Crack >>
    /\ registered = {}
    /\ exitCode = None
    /\ FrontendIdle
    /\ held = None

Next ==
    \/ Tick
    \/ Connected
    \/ ConnectFailed
    \/ Restart
    \/ SeedFindAdmin
    \/ SeedFindOfficer
    \/ SeedHashAdmin
    \/ SeedCreateAdmin
    \/ SeedHashOfficer
    \/ SeedCreateOfficer
    \/ \E s \in Slots, body \in LoginBodies : StaticLoginRecv(s, body)
    \/ \E s \in Slots : StaticLoginCompare(s)
    \/ \E hdr \in Headers : StaticUser(hdr)
    \/ \E hdr \in Headers : StaticStats(hdr)
    \/ \E hdr \in Headers : StaticLogout(hdr)
    \/ \E s \in Slots, body \in RegisterBodies : RegisterRecv(s, body)
    \/ \E s \in Slots : RegisterHash(s)
    \/ \E s \in Slots : RegisterSave(s)
    \/ \E s \in Slots, body \in LoginBodies : LoginRecv(s, body)
    \/ \E s \in Slots : LoginFindOne(s)
    \/ \E s \in Slots : LoginCompare(s)
    \/ \E s \in Slots, hdr \in Headers : UserRecv(s, hdr)
    \/ \E s \in Slots : UserFindById(s)
    \/ \E hdr \in Headers : Stats(hdr)
    \/ \E hdr \in Headers : Logout(hdr)
    \/ Health
    \/ StaticHealth
    \/ KeepToken
    \/ Discard

Spec == Init /\ [][Next]_vars

\* The store-backed server with two requests in flight at once: registrations
\* racing one another and the seeder.
InitRace ==
    /\ variant = "db"
    /\ clock = 0
    /\ users = {} /\ nextOid = 0
    /\ proc = "connecting" /\ boots = 1
    /\ seed = SeedOff /\ seedRuns = 0
    /\ inflight = [s \in {1, 2} |-> Idle]
    /\ last = Idle
    /\ served = 0
    /\ damages = << Pothole, Crack >>
    /\ registered = {}
    /\ exitCode = None
    /\ FrontendIdle
    /\ held = None

NextRace ==
    \/ Connected
    \/ ConnectFailed
    \/ Restart
    \/ SeedFindAdmin
    \/ SeedFindOfficer
    \/ SeedHashAdmin
    \/ SeedCreateAdmin
    \/ SeedHashOfficer
    \/ SeedCreateOfficer
    \/ \E s \in Slots, body \in RegisterBodies : RegisterRecv(s, body)
    \/ \E s \in Slots : RegisterHash(s)
    \/ \E s \in Slots : RegisterSave(s)
    \/ Discard

SpecRace == InitRace /\ [][NextRace]_vars

\* Profile fetches against a store in any state a process can find it in
\* when it starts, by a client that kept a token from an earlier login: the
\* store is outside the process, and records of it may be gone since.
Registered(n, username) ==
    [id |-> ObjectId(n), username |-> username,
     password |-> BcryptHash("hunter2", SaltRounds, "salt1"),
     name |-> "Alice Citizen", role |-> "officer", department |-> "Roads"]

EarlierUsers == { Registered(1, "alice"), Registered(2, "bob") }

InitProfile ==
    /\ variant \in {"static", "db"}
    /\ clock = 0
    /\ users \in (IF variant = "db" THEN SUBSET EarlierUsers ELSE { {} })
    /\ nextOid = 2
    /\ proc = (IF variant = "db" THEN "connecting" ELSE "none")
    /\ boots = (IF variant = "db" THEN 1 ELSE 0)
    /\ seed = SeedOff /\ seedRuns = 0
    /\ inflight = [s \in {1} |-> Idle]
    /\ last = Idle
    /\ served = 0
    /\ damages = << Pothole, Crack >>
    /\ registered = {}
    /\ exitCode = None
    /\ FrontendIdle
    /\ held \in { Some(JwtSign([id |-> u.id, username |-> u.username,
                                 role |-> u.role], JWT_SECRET, ExpiresIn, 0)) :
                    u \in (IF variant = "db" THEN EarlierUsers
                                             ELSE STATIC_USERS) }

NextProfile ==
    \/ Tick
    \/ Connected
    \/ SeedFindAdmin
    \/ SeedFindOfficer
    \/ SeedHashAdmin
    \/ SeedCreateAdmin
    \/ SeedHashOfficer
    \/ SeedCreateOfficer
    \/ \E hdr \in Headers : StaticUser(hdr)
    \/ \E s \in Slots, hdr \in Headers : UserRecv(s, hdr)
    \/ \E s \in Slots : UserFindById(s)
    \/ Discard

SpecProfile == InitProfile /\ [][NextProfile]_vars

\* The damage listing, over the contents the Damages collection may have,
\* asked for by a client with or without a token kept from an earlier login.
InitDamages ==
    /\ variant = "db"
    /\ clock = 0
    /\ users = EarlierUsers /\ nextOid = 2
    /\ proc = "connecting" /\ boots = 1
    /\ seed = SeedOff /\ seedRuns = 0
    /\ inflight = [s \in {1} |-> Idle]
    /\ last = Idle
    /\ served = 0
    /\ damages \in { << >>, << Pothole >>, << Pothole, Crack >>,
                     << Crack, Pothole >> }
    /\ registered = {}
    /\ exitCode = None
    /\ FrontendIdle
    /\ held \in { None,
                  Some(JwtSign([id |-> ObjectId(1), username |-> "alice",
                                role |-> "officer"], JWT_SECRET, ExpiresIn, 0)) }

NextDamages ==
    \/ Tick
    \/ Connected
    \/ ConnectFailed
    \/ Restart
    \/ \E s \in Slots, hdr \in Headers : DamagesRecv(s, hdr)
    \/ \E s \in Slots : DamagesFind(s)
    \/ Discard

SpecDamages == InitDamages /\ [][NextDamages]_vars

\* Registrations and logins of the store-backed server, by a client that
\* notes what it registered.
InitAccount ==
    /\ variant = "db"
    /\ clock = 0
    /\ users = {} /\ nextOid = 0
    /\ proc = "connecting" /\ boots = 1
    /\ seed = SeedOff /\ seedRuns = 0
    /\ inflight = [s \in {1} |-> Idle]
    /\ last = Idle
    /\ served = 0
    /\ damages = << Pothole, Crack >>
    /\ registered = {}
    /\ exitCode = None
    /\ FrontendIdle
    /\ held = None

NextAccount ==
    \/ Connected
    \/ Restart
    \/ SeedFindAdmin
    \/ SeedFindOfficer
    \/ SeedHashAdmin
    \/ SeedCreateAdmin
    \/ SeedHashOfficer
    \/ SeedCreateOfficer
    \/ \E s \in Slots, body \in RegisterBodies : RegisterRecv(s, body)
    \/ \E s \in Slots : RegisterHash(s)
    \/ \E s \in Slots : RegisterSave(s)
    \/ \E s \in Slots, body \in LoginBodies : LoginRecv(s, body)
    \/ \E s \in Slots : LoginFindOne(s)
    \/ \E s \in Slots : LoginCompare(s)
    \/ KeepCredentials
    \/ Discard

SpecAccount == InitAccount /\ [][NextAccount]_vars

\* One life of the store-backed process, from app.listen to the end of the
\* seeder, with logins arriving at any point of it.  The store is empty or
\* holds an admin that somebody registered before.  Every operation the seeder
\* awaits settles, and the client reads every answer.
InitStartup ==
    /\ variant = "db"
    /\ clock = 0
    /\ users \in { {}, {Registered(1, "admin")} } /\ nextOid = 2
    /\ proc = "connecting" /\ boots = 1
    /\ seed = SeedOff /\ seedRuns = 0
    /\ inflight = [s \in {1} |-> Idle]
    /\ last = Idle
    /\ served = 0
    /\ damages = << Pothole, Crack >>
    /\ registered = {}
    /\ exitCode = None
    /\ FrontendIdle
    /\ held = None

NextStartup ==
    \/ Connected
    \/ ConnectFailed
    \/ SeedFindAdmin
    \/ SeedFindOfficer
    \/ SeedHashAdmin
    \/ SeedCreateAdmin
    \/ SeedHashOfficer
    \/ SeedCreateOfficer
    \/ Health
    \/ \E s \in Slots, body \in LoginBodies : LoginRecv(s, body)
    \/ \E s \in Slots : LoginFindOne(s)
    \/ \E s \in Slots : LoginCompare(s)
    \/ Discard

FairStartup ==
    /\ WF_vars(SeedFindAdmin) /\ WF_vars(SeedFindOfficer)
    /\ WF_vars(SeedHashAdmin) /\ WF_vars(SeedCreateAdmin)
    /\ WF_vars(SeedHashOfficer) /\ WF_vars(SeedCreateOfficer)
    /\ WF_vars(Discard)

SpecStartup == InitStartup /\ [][NextStartup]_vars /\ FairStartup

\* The auth gate of either server before GET /api/dashboard/stats, given
\* Authorization headers of every shape by a client that holds a token.
InitGate ==
    /\ variant \in {"static", "db"}
    /\ clock = 0
    /\ users = {} /\ nextOid = 0
    /\ proc = (IF variant = "db" THEN "connecting" ELSE "none")
    /\ boots = (IF variant = "db" THEN 1 ELSE 0)
    /\ seed = SeedOff /\ seedRuns = 0
    /\ inflight = [s \in {1} |-> Idle]
    /\ last = Idle
    /\ served = 0
    /\ damages = << Pothole, Crack >>
    /\ registered = {}
    /\ exitCode = None
    /\ FrontendIdle
    /\ held = Some(JwtSign([id |-> NumId(1), username |-> "admin",
                            role |-> "admin"], JWT_SECRET, ExpiresIn, 0))

NextGate ==
    \/ Tick
    \/ \E hdr \in HeadersOfAnyShape : StaticStats(hdr)
    \/ \E hdr \in HeadersOfAnyShape : Stats(hdr)
    \/ Discard

SpecGate == InitGate /\ [][NextGate]_vars

\* The Login page: typing, submitting, and every way the fetch can end.
InitLogin ==
    /\ BackendIdle
    /\ page = LoginInitial
    /\ localStorage = NoItems
    /\ dash = DashboardInitial(2)
    /\ view = ViewInitial

NextLogin ==
    \/ \E name \in DOMAIN Typed : \E value \in Typed[name] : handleChange(name, value)
    \/ handleSubmit
    \/ \E response \in LoginResponses : LoginFetched(response)
    \/ LoginFetchFailed
    \/ LoginParsed

SpecLogin == InitLogin /\ [][NextLogin]_vars

\* The Dashboard of either version from its first render on: the load
\* effect and the two fetches it starts, ending in any way and in any order.
\* Every fetch settles and every due effect runs.
InitDashboard ==
    /\ BackendIdle
    /\ page = LoginInitial
    /\ localStorage = NoItems
    /\ dash \in { DashboardInitial(version) : version \in {1, 2} }
    /\ view = ViewInitial

NextDashboard ==
    \/ LoadEffect
    \/ \E outcome \in DamageOutcomes : DamageFetched(outcome)
    \/ \E outcome \in StatsOutcomes : DashStatsFetched(outcome)

FairDashboard ==
    /\ WF_vars(LoadEffect)
    /\ WF_vars(\E outcome \in DamageOutcomes : DamageFetched(outcome))
    /\ WF_vars(\E outcome \in StatsOutcomes : DashStatsFetched(outcome))

SpecDashboard == InitDashboard /\ [][NextDashboard]_vars /\ FairDashboard

\* the records the report table is tried on: every list of up to three of
\* five records, no record twice
ReportPool ==
    { Report(11, "Pothole", "Low", "Ring Road", Date(2025, 8, 3), "Pending"),
      Report(12, "Crack", "Critical", "Station Road", Date(2025, 6, 9), "Pending"),
      Report(13, "Pothole", "Medium", "Highway 42", Date(2025, 9, 1), "Completed"),
      Report(14, "Crack", "High", "Main Street", Date(2024, 11, 30), "In Progress"),
      Report(15, "Edge Break", "Low", "Chennai Road", Date(2025, 8, 3), "Pending") }

ReportLists ==
    { list \in UNION { [1 .. n -> ReportPool] : n \in 0 .. 3 } :
        \A i, j \in DOMAIN list : list[i] = list[j] => i = j }

\* The report table of the AnalyticsView over loaded damage data: the
\* selects and the search box, each followed by the render.
InitTable ==
    /\ BackendIdle
    /\ page = LoginInitial
    /\ localStorage = NoItems
    /\ \E list \in ReportLists :
          /\ dash = [DashboardInitial(2) EXCEPT
                       !.damageData = list, !.dataLoaded = TRUE,
                       !.effectDue = FALSE]
          /\ view = [ViewInitial EXCEPT
                       !.filteredData = filteredData(list, ViewInitial).data,
                       !.monthlyTrendData =
                           monthlyTrendData(list, 0, ViewInitial.now)]

NextTable ==
    \/ \E value \in SortChoices : setSortBy(value)
    \/ \E value \in SeverityChoices : setSeverityFilter(value)
    \/ \E value \in TypeChoices : setTypeFilter(value)
    \/ \E value \in SearchTerms : setSearchTerm(value)

SpecTable == InitTable /\ [][NextTable]_vars

\* the days the browser may be at: the first month of the trend, the sixth,
\* today, and the months in which the trend has 100 and 109 entries
Todays ==
    { Date(2020, 0, 15), Date(2020, 5, 1), Date(2026, 10, 4),
      Date(2028, 3, 1), Date(2029, 0, 1) }

\* The monthly trend of the AnalyticsView over loaded damage data and its
\* two buttons.
InitTrend ==
    /\ BackendIdle
    /\ page = LoginInitial
    /\ localStorage = NoItems
    /\ \E list \in { << >>, demoDamages }, now \in Todays :
          /\ dash = [DashboardInitial(2) EXCEPT
                       !.damageData = list, !.dataLoaded = TRUE,
                       !.effectDue = FALSE]
          /\ view = [ViewState(now) EXCEPT
                       !.filteredData = filteredData(list, ViewState(now)).data,
                       !.monthlyTrendData = monthlyTrendData(list, 0, now)]

NextTrend ==
    \/ TrendBack
    \/ TrendForward

SpecTrend == InitTrend /\ [][NextTrend]_vars

(* ------------------------------ claims -------------------------------- *)
\* every request a server holds or has just answered
Requests == { r \in {last} \cup { inflight[s] : s \in Slots } : r.pc # "idle" }

\* the routes registered behind authenticateToken
Gated(r) ==
    \/ r.route \in {"user", "stats"}
    \/ r.route = "logout" /\ r.srv = "static"

\* the header "Bearer <t>"
Bearer(t) == Some(<< Word("Bearer"), SP, t >>)

\* the request carries "Bearer <t>" for some token string t
CarriesToken(r) == r.hdr # None /\ Len(r.hdr[1]) = 3 /\ r.hdr = Bearer(r.hdr[1][3])
TokenOf(r) == r.hdr[1][3]

Malformed(t) == DOMAIN t # {"payload", "sig"}
SignedWith(t, secret) == t.sig = [key |-> secret, msg |-> t.payload]
ExpiredAt(t, now) == now >= t.payload.exp

\* C1: a request to a gated route that carries no Authorization header is
\* answered 401 on arrival: its route handler is never entered and no identity
\* is attached to it.
C1_MissingTokenIs401 ==
    \A r \in Requests :
        Gated(r) /\ r.hdr = None =>
            /\ r.pc = "done" /\ r.status = 401 /\ r.sent = 1
            /\ ~r.handler /\ r.reqUser = None

C1_Witness ==
    /\ last.pc = "done" /\ last.srv = "db" /\ last.route = "user"
    /\ last.hdr = None /\ last.status = 401

\* C2: a request to a gated route whose token is malformed, signed with
\* another secret, or expired when it arrives is answered 403, and its route
\* handler is never entered.
C2_BadTokenIs403 ==
    \A r \in Requests :
        Gated(r) /\ CarriesToken(r) =>
            LET t == TokenOf(r)
            IN  (Malformed(t) \/ t.sig.key # JWT_SECRET \/ ExpiredAt(t, r.at)) =>
                    /\ r.pc = "done" /\ r.status = 403 /\ r.sent = 1
                    /\ ~r.handler /\ r.reqUser = None

\* an expired token, rightly signed, was answered 403
C2_Witness ==
    /\ last.pc = "done" /\ Gated(last) /\ CarriesToken(last)
    /\ ~Malformed(TokenOf(last))
    /\ SignedWith(TokenOf(last), JWT_SECRET)
    /\ ExpiredAt(TokenOf(last), last.at)
    /\ last.status = 403

\* C3: a request to a gated route whose token is signed with the server's
\* secret and unexpired on arrival reaches its route handler, with req.user
\* the id, username and role the token was signed for; and a route handler is
\* entered only for such a request.
C3_ValidTokenProceeds ==
    \A r \in Requests :
        Gated(r) =>
            LET valid == /\ CarriesToken(r)
                         /\ ~Malformed(TokenOf(r))
                         /\ SignedWith(TokenOf(r), JWT_SECRET)
                         /\ ~ExpiredAt(TokenOf(r), r.at)
            IN  /\ r.handler <=> valid
                /\ r.handler <=> r.reqUser # None
                /\ r.handler =>
                     /\ r.status \notin {401, 403}
                     /\ LET t == TokenOf(r)
                            u == r.reqUser[1]
                        IN  /\ u.id = t.payload.id
                            /\ u.username = t.payload.username
                            /\ u.role = t.payload.role
                            /\ t = JwtSign([id |-> u.id, username |-> u.username,
                                            role |-> u.role],
                                           JWT_SECRET, ExpiresIn, u.iat)

\* the profile of the token's subject was fetched and answered
C3_Witness ==
    /\ last.pc = "done" /\ last.srv = "db" /\ last.route = "user"
    /\ last.handler /\ last.status = 200
    /\ last.reqUser # None
    /\ last.resBody.user.id = last.reqUser[1].id
    /\ last.reqUser[1].id = TokenOf(last).payload.id

\* the user records a login request is checked against
StoreOf(r) == IF r.srv = "static" THEN STATIC_USERS ELSE users
Known(r) == { u \in StoreOf(r) : Some(u.username) = r.body.username }
Matching(r) == { u \in Known(r) : Some(u.password.of) = r.body.password }

\* both credentials are present and non-empty
ValidBody(r) ==
    r.body.username \notin {None, Some("")} /\ r.body.password \notin {None, Some("")}

\* an answered login whose store lookup returned
LoginsAnswered ==
    { r \in Requests : r.route = "login" /\ r.pc = "done" /\ r.status # 500 }

\* C4: a login with an unknown username and a login with a known username and
\* a wrong password get one and the same answer, 401 with the body
\* {message: 'Invalid credentials'}, and no token is issued for either.
C4_LoginFailuresAlike ==
    \A r \in LoginsAnswered :
        ValidBody(r) /\ (Known(r) = {} \/ Matching(r) = {}) =>
            /\ r.status = 401 /\ r.sent = 1
            /\ r.resBody = [message |-> "Invalid credentials"]
            /\ r.token = Unset

\* a known username with a wrong password was answered
C4_Witness ==
    /\ last \in LoginsAnswered /\ last.srv = "db" /\ ValidBody(last)
    /\ Known(last) # {} /\ Matching(last) = {}
    /\ last.isPasswordValid = Ran(FALSE)
    /\ last.status = 401

\* the seeder's admin record
SeededAdmin == { u \in users : u.username = "admin" /\ u.name = "Administrator" }

\* C5: a login whose username and password match a stored user is answered
\* 200 with a token whose claims are that user's id, username and role and with
\* that user's record (admin/government123, once the seeder has created admin,
\* gets role admin); a token is issued on no other path.
C5_LoginSuccess ==
    /\ \A r \in LoginsAnswered :
          Matching(r) # {} =>
              /\ r.status = 200 /\ r.sent = 1
              /\ r.token = Ran(r.resBody.token)
              /\ \E u \in Matching(r) :
                    /\ r.resBody.token.payload.id = u.id
                    /\ r.resBody.token.payload.username = u.username
                    /\ r.resBody.token.payload.role = u.role
                    /\ r.resBody.user.id = u.id
                    /\ r.resBody.user.role = u.role
    /\ \A r \in LoginsAnswered :
          /\ r.srv = "db" /\ SeededAdmin # {}
          /\ r.body.username = Some("admin")
          /\ r.body.password = Some("government123")
          => r.status = 200 /\ r.resBody.user.role = "admin"
    /\ \A r \in Requests :
          r.token # Unset \/ "token" \in DOMAIN r.resBody =>
              /\ r.route = "login" /\ r.pc = "done" /\ r.status = 200
              /\ Matching(r) # {}

\* admin logged in with the seeded password after the seeder returned
C5_Witness ==
    /\ last \in LoginsAnswered /\ last.srv = "db"
    /\ seed.pc = "done" /\ ~seed.error /\ SeededAdmin # {}
    /\ last.body.username = Some("admin")
    /\ last.body.password = Some("government123")
    /\ last.status = 200 /\ last.resBody.user.role = "admin"

\* C6: a login whose username or password is missing or empty is answered 400
\* on arrival, before any user lookup, password comparison or token issuance.
C6_LoginValidation ==
    \A r \in Requests :
        r.route = "login" /\ ~ValidBody(r) =>
            /\ r.pc = "done" /\ r.status = 400 /\ r.sent = 1
            /\ r.user = Unset /\ r.isPasswordValid = Unset /\ r.token = Unset

\* an empty password was answered 400
C6_Witness ==
    /\ last.pc = "done" /\ last.route = "login" /\ last.srv = "db"
    /\ last.body.username = Some("admin") /\ last.body.password = Some("")
    /\ last.status = 400

\* C7: no response body holds a password field, neither at its top level nor
\* in the user object that login and the profile fetch return.
C7_NoPasswordInResponses ==
    \A r \in Requests :
        /\ "password" \notin DOMAIN r.resBody
        /\ "user" \in DOMAIN r.resBody => "password" \notin DOMAIN r.resBody.user

\* a login returned the record of a user whose stored record holds a hash
C7_Witness ==
    /\ last.pc = "done" /\ last.route = "login" /\ last.status = 200
    /\ "user" \in DOMAIN last.resBody
    /\ \E u \in StoreOf(last) :
          u.id = last.resBody.user.id /\ "password" \in DOMAIN u

WithHeldToken ==
    IF held = None THEN {}
    ELSE { r \in Requests : Gated(r) /\ r.hdr = Bearer(held[1]) }

\* ... and those that carry it with its expiry moved one lifetime later
WithExtendedToken ==
    IF held = None THEN {}
    ELSE { r \in Requests : Gated(r) /\
             r.hdr = Bearer([held[1] EXCEPT !.payload.exp = @ + ExpiresIn]) }

\* C9: a token issued by login at time t carries iat = t and exp = t + 24h; a
\* gated request that presents it before t + 24h reaches its handler, one that
\* presents it at or after t + 24h is answered 403, and the same token with a
\* later expiry written into it is answered 403.
C9_TokenLifetime ==
    /\ \A r \in LoginsAnswered :
          r.status = 200 =>
              /\ r.resBody.token.payload.iat = clock
              /\ r.resBody.token.payload.exp = clock + ExpiresIn
    /\ \A r \in WithHeldToken :
          IF r.at < held[1].payload.iat + ExpiresIn
          THEN r.handler /\ r.status \notin {401, 403}
          ELSE r.pc = "done" /\ r.status = 403 /\ ~r.handler
    /\ \A r \in WithExtendedToken : r.pc = "done" /\ r.status = 403 /\ ~r.handler

\* the kept token was presented a full lifetime after its issue and refused
C9_Witness ==
    /\ held # None /\ last \in WithHeldToken
    /\ last.at >= held[1].payload.iat + ExpiresIn
    /\ last.status = 403

\* the records of the default accounts
DefaultRecords == { u \in users : u.username \in {"admin", "officer"} }

\* a seeder run before the current one returned without an error
PriorRunOk == seedRuns > (IF seed.pc = "done" /\ ~seed.error THEN 1 ELSE 0)

\* C10: once a seeder run has returned without an error the store holds
\* exactly one admin and one officer record; a later run computes no hash and
\* reaches no create; and from then on the default accounts' records never
\* change.
C10_SeederIdempotent ==
    /\ [](seedRuns >= 1 =>
            /\ Cardinality({ u \in users : u.username = "admin" }) = 1
            /\ Cardinality({ u \in users : u.username = "officer" }) = 1)
    /\ [](PriorRunOk =>
            /\ seed.hashes = 0
            /\ seed.pc \in {"off", "findAdmin", "findOfficer", "done"})
    /\ [][seedRuns >= 1 => DefaultRecords' = DefaultRecords]_vars

\* the second run returned without an error, having hashed nothing
C10_Witness ==
    /\ boots = 2 /\ seedRuns = 2 /\ seed.pc = "done" /\ ~seed.error
    /\ seed.hashes = 0
    /\ Cardinality(DefaultRecords) = 2

\* the seeder computed the officer's hash: the first step of creating officer
OfficerAttempted ==
    seed.hashedPassword # Unset /\ seed.hashedPassword[1].of = "officer456"

\* C11: when the seeder has ended and its lookup had found no officer, it has
\* attempted to create officer, whatever became of the admin account before
\* it; and the process is still running after an error the seeder caught.
C11_SeederFailureIsolation ==
    /\ seed.pc = "done" /\ seed.existingOfficer = Ran(None) => OfficerAttempted
    /\ seed.pc = "done" /\ seed.error => proc = "connected"

\* C12: the store never holds two user records with one username, whatever
\* the interleaving of the seeder's steps and of two registrations in flight.
C12_UsernameUnique ==
    \A u, v \in users : u.username = v.username => u = v

\* admin was registered after the seeder had looked it up and found none, a
\* second registration of admin was refused, and the seeder is at its create
C12_Witness ==
    /\ seed.pc = "createAdmin" /\ seed.existingAdmin = Ran(None)
    /\ \E u \in users : u.username = "admin" /\ u.name = "Alice Citizen"
    /\ last.pc = "done" /\ last.route = "register" /\ last.status = 500
    /\ last.body.username = Some("admin")

\* the step answers the registration that slot s holds at its save
AnswersSave(s) ==
    /\ At_(s, "db", "register", "save")
    /\ inflight'[s] = Idle
    /\ last'.pc = "done" /\ last'.route = "register"

\* C13: a registration whose username is taken when its save reaches the
\* store is answered 500 {message: 'Internal server error'}, once, and the
\* step leaves every stored record, the existing one with its hash, as it was.
C13_DuplicateRegistration ==
    [][\A s \in Slots :
          AnswersSave(s) /\ DuplicateKey(inflight[s].body.username[1]) =>
              /\ last'.status = 500 /\ last'.sent = 1
              /\ last'.resBody = [message |-> "Internal server error"]
              /\ users' = users]_vars

\* a registration of admin was refused and the seeded record is as seeded
C13_Witness ==
    /\ last.pc = "done" /\ last.route = "register" /\ last.status = 500
    /\ last.body.username = Some("admin")
    /\ last.body.password = Some("hunter2")
    /\ \E u \in SeededAdmin : u.password.of = "government123"

\* the registrations a server holds or has just answered
Registrations == { r \in Requests : r.route = "register" }

\* C14: a registration without a username or a password is answered 400 on
\* arrival and adds no record; a registration whose save the store accepts is
\* answered 201 and adds exactly one record, under the given username, whose
\* password is the bcrypt hash of the given password; and every stored
\* password is such a hash.
C14_RegistrationOutcome ==
    /\ [](\A r \in Registrations :
            ~ValidBody(r) =>
                /\ r.pc = "done" /\ r.status = 400 /\ r.sent = 1
                /\ r.hashedPassword = Unset)
    /\ [][last.pc = "idle" /\ last'.route = "register" /\ last'.status = 400
            => users' = users]_vars
    /\ [][\A s \in Slots :
            AnswersSave(s) /\ last'.status # 500 =>
                /\ last'.status = 201 /\ last'.sent = 1
                /\ \E u \in users' \ users :
                      /\ users' = users \cup {u}
                      /\ Some(u.username) = last'.body.username
                      /\ u.password = BcryptHash(last'.body.password[1],
                                                 SaltRounds, u.password.salt)
                      /\ BcryptCompare(last'.body.password[1], u.password)]_vars
    /\ [](\A u \in users :
            u.password.alg = "2b" /\ u.password.rounds = SaltRounds)

\* alice was registered and her record holds the hash of her password
C14_Witness ==
    /\ last.pc = "done" /\ last.route = "register" /\ last.status = 201
    /\ last.body.username = Some("alice")
    /\ \E u \in users :
          u.username = "alice" /\ u.password = last.hashedPassword[1]
                               /\ u.password.of = "hunter2"

\* the request carries a token signed with the server's secret and unexpired
ValidToken(r, now) ==
    /\ CarriesToken(r) /\ ~Malformed(TokenOf(r))
    /\ SignedWith(TokenOf(r), JWT_SECRET) /\ ~ExpiredAt(TokenOf(r), now)

\* C15: in either server, each of which serves login, a POST /api/logout
\* that carries a valid token is answered 200 with a {message} body, once.
C15_LogoutAcknowledges ==
    \A r \in Requests :
        r.route = "logout" /\ ValidToken(r, clock) =>
            /\ r.pc = "done" /\ r.status = 200 /\ r.sent = 1
            /\ DOMAIN r.resBody = {"message"}

\* the profile fetches whose handler ran to an answer of its own
ProfilesAnswered ==
    { r \in Requests : r.route = "user" /\ r.handler /\ r.pc = "done"
                                        /\ r.status # 500 }

\* C16: a profile fetch that passed the gate is answered 200 with the record,
\* less its password, of the stored user whose id is the id in the token, and
\* 404 {message: 'User not found'} when no stored user has that id; no other
\* user's record is returned.
C16_ProfileOfSubject ==
    \A r \in ProfilesAnswered :
        LET owners == { u \in StoreOf(r) : u.id = TokenOf(r).payload.id }
        IN  /\ r.sent = 1
            /\ r.reqUser[1].id = TokenOf(r).payload.id
            /\ IF owners = {}
               THEN /\ r.status = 404
                    /\ r.resBody = [message |-> "User not found"]
               ELSE /\ r.status = 200
                    /\ \E u \in owners : r.resBody = [user |-> WithoutPassword(u)]

\* the token's user is gone from a store that holds other users: 404
C16_Witness ==
    /\ last \in ProfilesAnswered /\ last.srv = "db"
    /\ last.hdr = Bearer(held[1])
    /\ users # {} /\ \A u \in users : u.id # held[1].payload.id
    /\ last.status = 404

\* the step is the seeder's create of a default account
SeederCreates ==
    /\ seed.pc \in {"createAdmin", "createOfficer"} /\ seed'.pc # seed.pc
    /\ \A u \in users' \ users : u.username \in {"admin", "officer"}

\* the step answers a registration 201
RegisterSucceeds ==
    /\ last.pc = "idle" /\ last'.pc = "done"
    /\ last'.route = "register" /\ last'.status = 201

\* C17: no step removes a user record or changes a field of one, and a step
\* that adds to the collection adds one record and is a registration answered
\* 201 or a create of the seeder.
C17_RecordsWriteOnce ==
    [][/\ users \subseteq users'
       /\ users' # users =>
             /\ Cardinality(users' \ users) = 1
             /\ RegisterSucceeds \/ SeederCreates]_vars

\* the seeded records outlived a restart, a later seeder run and a refused
\* registration of admin
C17_Witness ==
    /\ boots = 2 /\ seed.pc = "done" /\ seedRuns = 2
    /\ \E u \in SeededAdmin : u.id = ObjectId(1)
    /\ last.pc = "done" /\ last.route = "register" /\ last.status = 500
    /\ last.body.username = Some("admin")

\* secrets a server of this code does not sign with
OtherSecrets == {"not-the-secret", ""}

\* C18: every token a server issues, in any process lifetime, is signed with
\* the one secret JWT_SECRET; the token a client kept fails verification
\* under any other secret; and a gated request whose token was signed with
\* another secret is answered 403 without reaching its handler.
C18_SecretFixed ==
    /\ \A r \in Requests :
          "token" \in DOMAIN r.resBody => SignedWith(r.resBody.token, JWT_SECRET)
    /\ held # None =>
          /\ SignedWith(held[1], JWT_SECRET)
          /\ \A other \in OtherSecrets :
                JwtVerify(<< held[1] >>, other, clock).err = "JsonWebTokenError"
    /\ \A r \in Requests :
          /\ Gated(r) /\ CarriesToken(r) /\ ~Malformed(TokenOf(r))
          /\ TokenOf(r).sig.key \in OtherSecrets
          => r.pc = "done" /\ r.status = 403 /\ ~r.handler

\* after a restart, the kept token signed again with another secret is refused
C18_Witness ==
    /\ held # None /\ boots = 2
    /\ last.pc = "done" /\ last.route = "stats"
    /\ last.hdr = Bearer(Resigned(held[1]))
    /\ ~ExpiredAt(held[1], clock)
    /\ last.status = 403

\* how far a handler has come: arrival, its first await, its second, its answer
Rank(pc) ==
    CASE pc = "recv" -> 0
      [] pc \in {"hash", "findOne", "findById"} -> 1
      [] pc \in {"save", "compare"} -> 2
      [] pc = "done" -> 3

\* the step ends the process that holds the requests in flight
ProcessEnds == proc' = "exited" \/ boots' # boots

\* the step answers the request that slot s holds
AnswersSlot(s) ==
    /\ inflight'[s] = Idle
    /\ last.pc = "idle" /\ last'.pc = "done" /\ last'.sent = 1
    /\ last'.route = inflight[s].route /\ last'.body = inflight[s].body
    /\ last'.hdr = inflight[s].hdr

\* C19: a request has been answered once when its handler has ended and not
\* at all before, never twice; a handler in flight leaves its slot only by
\* answering (or with the process), and every other step of it moves on to a
\* later await, so no await, and no store call, is made a second time; a
\* failed call is answered 500 in the step that fails.
C19_AnsweredOnce ==
    /\ [](\A r \in Requests :
            /\ r.sent <= 1
            /\ r.pc = "done" <=> r.sent = 1
            /\ r.sent = 1 <=> r.status # 0
            /\ r.status = 500 =>
                  r.resBody = [message |-> "Internal server error"])
    /\ [][\A s \in Slots :
            inflight[s].pc # "idle" /\ inflight'[s] # inflight[s] =>
                \/ AnswersSlot(s)
                \/ inflight'[s] = Idle /\ ProcessEnds
                \/ /\ inflight'[s].pc \notin {"idle", "done"}
                   /\ Rank(inflight'[s].pc) > Rank(inflight[s].pc)
                   /\ inflight'[s].sent = 0 /\ UNCHANGED last]_vars

\* a login whose store lookup failed was answered 500, once
C19_Witness ==
    /\ last.pc = "done" /\ last.srv = "db" /\ last.route = "login"
    /\ last.user = Unset /\ ValidBody(last)
    /\ last.status = 500 /\ last.sent = 1

\* the damage listing requests a server holds or has just answered
Listings == { r \in Requests : r.route = "damages" }

\* C20: every request for the damage listing reaches its handler, whatever
\* its Authorization header, with no identity attached; it is answered 200
\* with the array of all stored damage records, or 500 with the generic
\* message when the store call fails; and no step changes the collection.
C20_DamagesUngated ==
    /\ [](\A r \in Listings :
            /\ r.handler /\ r.reqUser = None
            /\ r.sent <= 1
            /\ r.pc = "done" =>
                  \/ r.status = 200 /\ r.resBody = damages
                  \/ /\ r.status = 500
                     /\ r.resBody = [message |-> "Internal server error"])
    /\ [][damages' = damages]_vars

\* a request with a token signed with another secret got the whole listing
C20_Witness ==
    /\ held # None
    /\ last.pc = "done" /\ last.route = "damages"
    /\ last.hdr = Bearer(Resigned(held[1]))
    /\ last.status = 200 /\ last.resBody = << Crack, Pothole >>

AdminLogin ==
    /\ last \in LoginsAnswered
    /\ last.body.username = Some("admin")
    /\ last.body.password = Some("government123")

C22_TakenWhileConnecting ==
    proc = "connecting" /\ \E s \in Slots : inflight[s].route = "login"

\* the default login was answered 401 while the seeder was about to create
\* the account
C22_RefusedBeforeSeeded ==
    seed.pc = "createAdmin" /\ AdminLogin /\ last.status = 401

\* C23: a rejected mongoose.connect ends the process with exit code 1, and it
\* is the only way the process exits; the seeder of a process that exited, or
\* is still connecting, was never called; the seeder is called in the step in
\* which the connection succeeds and in no other, so at most once per process.
C23_ConnectFailureExits ==
    /\ [](proc = "exited" <=> exitCode = Some(1))
    /\ [](proc \in {"connecting", "exited"} => seed = SeedOff)
    /\ [][proc' = "exited" /\ proc # "exited" => proc = "connecting"]_vars
    /\ [][seed'.pc # "off" /\ seed.pc = "off" =>
            proc = "connecting" /\ proc' = "connected"]_vars
    /\ [][seed'.pc \in {"off", "findAdmin"} /\ seed'.pc # seed.pc =>
            seed.pc = "off" \/ boots' = boots + 1]_vars

\* the first process connected and seeded once; the one started after it
\* failed to connect and exited without seeding
C23_Witness ==
    /\ boots = 2 /\ seedRuns = 1
    /\ proc = "exited" /\ exitCode = Some(1) /\ seed = SeedOff

\* seg is the second space-separated segment of the header h: what stands
\* between the first space of h and the next space, or the end
IsSecondSegment(h, seg) ==
    \E i \in 1 .. Len(h) :
        /\ h[i] = SP /\ (\A k \in 1 .. i - 1 : h[k] # SP)
        /\ \E j \in i .. Len(h) :
              /\ seg = SubSeq(h, i + 1, j)
              /\ \A k \in i + 1 .. j : h[k] # SP
              /\ j = Len(h) \/ h[j + 1] = SP

SecondSegments(r) ==
    IF r.hdr = None THEN {}
    ELSE { seg \in { SubSeq(r.hdr[1], i, j) :
                       i \in 1 .. Len(r.hdr[1]) + 1, j \in 0 .. Len(r.hdr[1]) } :
             IsSecondSegment(r.hdr[1], seg) }

\* the answer the gate gives a request that carries no Authorization header
AnsweredAsAbsent(r) ==
    /\ r.status = 401 /\ r.resBody = Message("Access token required")
    /\ ~r.handler /\ r.reqUser = None

\* C24: the gate decides on the second space-separated segment of the
\* Authorization header alone: a header with no second segment, or an empty
\* one, is answered as an absent header is (401); otherwise the request
\* proceeds, with the segment's claims attached, exactly when the segment
\* verifies as a token, and is answered 403 when it does not, whatever the
\* scheme word before it and whatever follows it.
C24_SecondSegmentDecides ==
    \A r \in Requests :
        r.route = "stats" /\ r.pc = "done" =>
            IF SecondSegments(r) \subseteq { << >> }
            THEN AnsweredAsAbsent(r)
            ELSE \A seg \in SecondSegments(r) :
                    LET v == JwtVerify(seg, JWT_SECRET, r.at)
                    IN  IF v.err = ""
                        THEN r.handler /\ r.status = 200 /\ r.reqUser = v.decoded
                        ELSE /\ r.status = 403 /\ ~r.handler
                             /\ r.resBody = Message("Invalid or expired token")

\* 'Basic <valid token>' went through the gate
C24_Witness ==
    /\ last.route = "stats" /\ last.pc = "done"
    /\ last.hdr = Some(<< Word("Basic"), SP, held[1] >>)
    /\ last.handler /\ last.status = 200

\* 'Bearer' alone was answered as an absent header is
C24_SchemeAlone ==
    /\ last.route = "stats" /\ last.hdr = Some(<< Word("Bearer") >>)
    /\ AnsweredAsAbsent(last)

\* handleSubmit comes to its end in this step
SubmitEnds == page.pc \in {"fetch", "json"} /\ page'.pc = "idle"

\* the response handleSubmit is ending on was ok
EndsOnOk == page.pc = "json" /\ page.response[1].status \in 200 .. 299

\* C25: localStorage is written and onLogin is called only in the step that
\* ends handleSubmit on an ok response; a step that ends it on a non-ok
\* response or on a rejected fetch writes nothing, calls nothing and leaves
\* an error message; on an ok response with a JSON body authToken and user
\* are the response's token and user and onLogin is called once with the
\* user; and every end of handleSubmit leaves loading false.
C25_LoginSessionStorage ==
    [][ /\ (localStorage' # localStorage \/ page'.onLogin # page.onLogin) =>
             SubmitEnds /\ EndsOnOk
        /\ SubmitEnds => ~page'.loading
        /\ SubmitEnds /\ ~EndsOnOk =>
             /\ localStorage' = localStorage
             /\ page'.onLogin = page.onLogin
             /\ page'.error # ""
        /\ SubmitEnds /\ EndsOnOk /\ page.response[1].body # None =>
             /\ localStorage' =
                   [authToken |-> Some(page.response[1].body[1].token),
                    user |-> Some(JsonStringify(page.response[1].body[1].user))]
             /\ page'.onLogin = Append(page.onLogin, page.response[1].body[1].user)
      ]_vars

\* a first login was answered 200 and stored; a second one ended on an error
\* and left what was stored
C25_Witness ==
    /\ served = 2 /\ page.pc = "idle" /\ ~page.loading
    /\ page.error = "Invalid credentials"
    /\ localStorage.authToken # None /\ Len(page.onLogin) = 1

\* the damage records the dashboard shows: the first version shows
\* demoDamages while damageData is empty
Holding ==
    IF dash.version = 1 /\ Len(dash.damageData) = 0 THEN demoDamages
    ELSE dash.damageData

\* C26: when both fetches have ended and the stats fetch ended without an ok
\* answer, the stats shown are the counts over the damage records the
\* dashboard holds, in whichever order the two fetches ended.
C26_StatsFallback ==
    dash.damageReq = "done" /\ dash.statsReq = "done" /\ dash.statsOutcome # "ok" =>
        dash.stats = StatsOf(Holding)

\* C27: when the damage fetch has ended, damageData is the list returned if
\* the answer was ok, and demoDamages if it was not or the fetch failed.
C27_DamageFallback ==
    dash.damageReq = "done" =>
        dash.damageData = (IF dash.damageOutcome.kind = "ok"
                           THEN dash.damageOutcome.data ELSE demoDamages)

\* C28: the load effect starts the damage fetch and the stats fetch once
\* each, together; dataLoaded becomes true however the damage fetch ends and
\* stays true; and with dataLoaded true no fetch is started.
C28_LoadsOnce ==
    /\ [](dash.damageFetches <= 1 /\ dash.statsFetches <= 1)
    /\ [](dash.damageReq # "off" \/ dash.statsReq # "off" =>
            dash.damageFetches = 1 /\ dash.statsFetches = 1)
    /\ [](dash.damageReq = "done" => dash.dataLoaded)
    /\ <>[](dash.dataLoaded /\ ~dash.effectDue)
    /\ [][dash.dataLoaded =>
            /\ dash'.dataLoaded
            /\ dash'.damageFetches = dash.damageFetches
            /\ dash'.statsFetches = dash.statsFetches]_vars

\* the damage fetch was rejected, dataLoaded is true, the effect ran again
\* and started nothing
C28_Witness ==
    /\ dash.damageOutcome.kind = "rejected" /\ dash.dataLoaded
    /\ ~dash.effectDue
    /\ dash.damageFetches = 1 /\ dash.statsFetches = 1

\* the place of a severity in the order Low < Medium < High < Critical
SeverityRank(severity) ==
    CASE severity = "Low" -> 1
      [] severity = "Medium" -> 2
      [] severity = "High" -> 3
      [] severity = "Critical" -> 4

\* the record passes the search box and the two filters
Passes(d) ==
    /\ view.searchTerm = "" \/ Includes(d.location, ToLowerCase(view.searchTerm))
                            \/ Includes(d.type, ToLowerCase(view.searchTerm))
    /\ view.severityFilter \in {"All", d.severity}
    /\ view.typeFilter \in {"All", d.type}

\* how often the record stands in the list
Times(list, d) == Cardinality({ i \in 1 .. Len(list) : list[i] = d })

C30_TrendWindow ==
    /\ view.endIndex \in 0 .. MaxEndIndex
    /\ Len(view.monthlyTrendData) <= TrendWindow
    /\ \A i \in 1 .. Len(view.monthlyTrendData) :
          LET key == view.monthlyTrendData[i].key
          IN  /\ key[1] * 12 + key[2] <= view.now.y * 12 + view.now.m
              /\ i > 1 => key[1] * 12 + key[2] =
                             view.monthlyTrendData[i - 1].key[1] * 12
                               + view.monthlyTrendData[i - 1].key[2] + 1

\* the back button was pressed past the first month of the trend
C30_PastTheStart ==
    /\ view.endIndex > (view.now.y - FirstYear) * 12 + view.now.m + 1
    /\ Len(dash.damageData) > 0

====
